---- MODULE Spec2Model ----
(***************************************************************************)
(* Model of SupabasePersistenceService                                     *)
(* (src/app/lib/services/supabase-persistence.ts): the offline write       *)
(* queue, its copy in localStorage, the connectivity handlers, the drain   *)
(* (processOfflineQueue) and the save / get operations of the gateway,     *)
(* run against a remote store that answers every request with a result or  *)
(* an error.                                                               *)
(*                                                                         *)
(* The service is single threaded.  An async method runs synchronously up  *)
(* to its first await; every action below is one such synchronous run:     *)
(* either the part of a method from its call to the await of its store     *)
(* request, or the continuation that handles the answer.  In a drain the   *)
(* continuation of one replayed operation runs on into the synchronous     *)
(* part of the next one (only microtask boundaries lie between them, which *)
(* no event handler can interleave).                                       *)
(***************************************************************************)
EXTENDS Integers, Sequences, FiniteSets, TLC

VARIABLES
    supabase,       \* this.supabase is a client (TRUE) or null (FALSE)
    userContext,    \* this.userContext, NoContext for null
    isOnline,       \* this.isOnline
    offlineQueue,   \* this.offlineQueue
    persisted,      \* localStorage['supabase_offline_queue'], as the queue it encodes
    now,            \* Date.now()
    storeMode,      \* how the remote store answers requests at present
    chat_history,   \* remote table chat_history, a set of rows
    design_files,   \* remote table design_files
    project_files,  \* remote table project_files
    user_settings,  \* remote table user_settings
    users,          \* remote table users
    projects,       \* remote table projects
    canvas_snapshots, \* remote table canvas_snapshots
    session,        \* the hook's Clerk user (its external id), NoUser when signed out
    calls,          \* per caller: the gateway call it is suspended in, or Idle
    drains,         \* per drain slot: a suspended processOfflineQueue pass, or NoDrain
    returned        \* what the gateway call that returned last gave its caller

vars == <<supabase, userContext, isOnline, offlineQueue, persisted, now, storeMode,
          chat_history, design_files, project_files, user_settings, users, projects,
          canvas_snapshots, session, calls, drains, returned>>

tables == <<chat_history, design_files, project_files, user_settings, users, projects,
            canvas_snapshots>>

----------------------------------------------------------------------------
(* Bounds *)

MaxClock == 1       \* Date.now() ranges over 0..MaxClock
MaxOps == 2         \* writes outstanding at once (queued, in flight or held by a
                    \* drain) in the specifications of the queue
MaxGatewayOps == 1  \* the same, in the specification of the whole gateway
MaxCallers == 1     \* concurrently suspended gateway calls
MaxDrains == 2      \* concurrently suspended drain passes
MaxUsers == 2       \* rows of users before which ensureUser is still called
MaxProjects == 1    \* rows of projects before which createProject is still called
MaxRows == 1        \* rows stored or under way before which the specification of
                    \* owner scoping still issues writes that add rows
MaxSnapshots == 2   \* rows of canvas_snapshots before which createCanvasSnapshot is
                    \* still called
MaxStored == 52     \* rows of projects the store holds when the listing is asked for

Callers == 1..MaxCallers
\* Calls of ensureUser come from the hook of every tab and session that
\* shares the store: one more than the calls of this tab.
Sessions == 1..(MaxCallers + 1)
DrainIds == 1..MaxDrains

----------------------------------------------------------------------------
(* Inputs *)

NoId == "none"      \* ChatMessage.id left undefined
Projects == {"p1"}
Paths == {"index.html"}
Contents == {"A", "B"}
Themes == {"light", "dark"}

NoUser == "none"    \* useUser() has no signed-in user
NoContext == [userId |-> "none", clerkUserId |-> "none"]
Contexts == {[userId |-> "u1", clerkUserId |-> "c1"]}

ChatMessage == [id : {"m1"}, projectId : Projects, role : {"user"}, content : Contents]
QueueMessage == [id : {"m1", "m2"}, projectId : Projects, role : {"user"}, content : {"hi"}]
RetryMessage == [id : {"m1", NoId}, projectId : Projects, role : {"user"}, content : {"hi"}]
DesignFile == [projectId : Projects, filePath : Paths, fileType : {"html"}, content : Contents]
ProjectFile == [projectId : Projects, filePath : Paths, content : Contents]
UserSettings == [theme : Themes]

SaveTypes == {"saveChatMessage", "saveDesignFile", "saveProjectFile"}

Idle == [op |-> "idle"]
NoDrain == [queue |-> <<>>, i |-> 0]
NoReturn == [op |-> "none"]

\* A call returns: its result (Void for Promise<void>) and whether it threw.
Void == {}
Return(op, result, threw) == [op |-> op, result |-> result, threw |-> threw]

----------------------------------------------------------------------------
(* The remote store, consumed through upsert / select.  A table is a set   *)
(* of rows; an upsert replaces the rows that agree with the new row on the *)
(* onConflict columns and inserts the new row.                             *)

StoreModes == {"ok", "reject", "ackLost"}
    \* ok:      the request is applied and answered without error
    \* reject:  the request is not applied, the answer carries an error
    \* ackLost: the request is applied but the answer never arrives, the
    \*          client call throws
    \* While the browser is offline no request reaches the store and the
    \* client call throws.

Null == "null"      \* null / undefined in a column or a result

Applied == isOnline /\ storeMode \in {"ok", "ackLost"}
Failed == ~isOnline \/ storeMode # "ok"

ChatKey(row) == row.id
FileKey(row) == <<row.project_id, row.file_path>>
SettingsKey(row) == row.user_id

UpsertChatHistory(table, row) ==
    {r \in table : ChatKey(r) # ChatKey(row)} \cup {row}

\* Mutant of UpsertDesignFiles: a plain insert, no onConflict.
InsertDesignFile(table, row) == table \cup {row}

UpsertDesignFiles(table, row) ==
    {r \in table : FileKey(r) # FileKey(row)} \cup {row}

\* The upsert of saveProjectFile does not name the column deleted_at: a
\* row that is replaced keeps its value, a new row has none.
UpsertProjectFiles(table, row) ==
    {r \in table : FileKey(r) # FileKey(row)} \cup
    {[project_id |-> row.project_id, user_id |-> row.user_id,
      file_path |-> row.file_path, content |-> row.content,
      is_deleted |-> row.is_deleted,
      deleted_at |-> IF \E r \in table : FileKey(r) = FileKey(row)
                     THEN (CHOOSE r \in table : FileKey(r) = FileKey(row)).deleted_at
                     ELSE Null]}

UpsertUserSettings(table, row) ==
    {r \in table : SettingsKey(r) # SettingsKey(row)} \cup {row}

\* The store handles one upsert request.
ApplyWrite(req) ==
    /\ chat_history' = IF Applied /\ req.table = "chat_history"
                       THEN UpsertChatHistory(chat_history, req.row) ELSE chat_history
    /\ design_files' = IF Applied /\ req.table = "design_files"
                       THEN UpsertDesignFiles(design_files, req.row) ELSE design_files
    /\ project_files' = IF Applied /\ req.table = "project_files"
                        THEN UpsertProjectFiles(project_files, req.row) ELSE project_files
    /\ user_settings' = IF Applied /\ req.table = "user_settings"
                        THEN UpsertUserSettings(user_settings, req.row) ELSE user_settings
    /\ UNCHANGED <<users, projects, canvas_snapshots>>

\* The answer of a request that failed: an error in the result (reject), or
\* a rejected promise (offline, or the answer is lost).
ErrorResult == isOnline /\ storeMode = "reject"
Threw == ~isOnline \/ storeMode = "ackLost"

\* .eq(column, value) ... : the rows that satisfy every equality of filter
Matches(row, filter) == \A f \in DOMAIN filter : row[f] = filter[f]
Selected(table, filter) == {r \in table : Matches(r, filter)}

\* .update(set): the columns of set replace those of the row (columns that
\* the rows of the model do not carry are dropped)
Updated(row, set) == [f \in DOMAIN row |-> IF f \in DOMAIN set THEN set[f] ELSE row[f]]

\* The id the store gives a row that is inserted without one.
NewId(prefix, table) == prefix \o ToString(Cardinality(table) + 1)

IdPrefix(table) ==
    CASE table = "users" -> "u"
      [] table = "projects" -> "p"
      [] table = "canvas_snapshots" -> "s"

\* A table after a select, update, delete or insert request on it.
Modified(table, req) ==
    CASE req.kind = "select" -> table
      [] req.kind = "delete" -> {r \in table : ~Matches(r, req.filter)}
      [] req.kind = "update" ->
            {IF Matches(r, req.filter) THEN Updated(r, req.set) ELSE r : r \in table}
      [] req.kind = "insert" ->
            table \cup {[req.row EXCEPT !.id = NewId(IdPrefix(req.table), table)]}

After(table, name, req) ==
    IF Applied /\ req.table = name THEN Modified(table, req) ELSE table

\* The store handles one request that is not an upsert.
ApplyRequest(req) ==
    /\ chat_history' = After(chat_history, "chat_history", req)
    /\ design_files' = After(design_files, "design_files", req)
    /\ project_files' = After(project_files, "project_files", req)
    /\ user_settings' = After(user_settings, "user_settings", req)
    /\ users' = After(users, "users", req)
    /\ projects' = After(projects, "projects", req)
    /\ canvas_snapshots' = After(canvas_snapshots, "canvas_snapshots", req)

\* The rows a select request is answered with.
Rows(req) ==
    CASE req.table = "chat_history" -> Selected(chat_history, req.filter)
      [] req.table = "design_files" -> Selected(design_files, req.filter)
      [] req.table = "project_files" -> Selected(project_files, req.filter)
      [] req.table = "user_settings" -> Selected(user_settings, req.filter)
      [] req.table = "users" -> Selected(users, req.filter)
      [] req.table = "projects" -> Selected(projects, req.filter)
      [] req.table = "canvas_snapshots" -> Selected(canvas_snapshots, req.filter)

Select(table, filter) == [table |-> table, kind |-> "select", filter |-> filter]
Delete(table, filter) == [table |-> table, kind |-> "delete", filter |-> filter]
Update(table, set, filter) ==
    [table |-> table, kind |-> "update", set |-> set, filter |-> filter]
Insert(table, row) == [table |-> table, kind |-> "insert", row |-> row]


----------------------------------------------------------------------------
(* Requests built by the save operations (the row handed to upsert). *)

\* `${message.projectId}_${Date.now()}`
GeneratedId(projectId, t) == projectId \o "_" \o ToString(t)

\* Mutant of MessageId: the id the caller supplied is ignored.
MessageIdAlwaysGenerated(message) == GeneratedId(message.projectId, now)

MessageId(message) ==
    IF message.id # NoId THEN message.id ELSE GeneratedId(message.projectId, now)

ChatRequest(message) ==
    [table |-> "chat_history",
     row |-> [id |-> MessageId(message), project_id |-> message.projectId,
              user_id |-> userContext.userId, role |-> message.role,
              content |-> message.content]]

DesignRequest(file) ==
    [table |-> "design_files",
     row |-> [project_id |-> file.projectId, user_id |-> userContext.userId,
              file_path |-> file.filePath, file_type |-> file.fileType,
              content |-> file.content]]

ProjectFileRequest(file) ==
    [table |-> "project_files",
     row |-> [project_id |-> file.projectId, user_id |-> userContext.userId,
              file_path |-> file.filePath, content |-> file.content,
              is_deleted |-> FALSE]]

SettingsRequest(settings) ==
    [table |-> "user_settings",
     row |-> [user_id |-> userContext.userId, theme |-> settings.theme]]

SaveRequest(type, data) ==
    CASE type = "saveChatMessage" -> ChatRequest(data)
      [] type = "saveDesignFile" -> DesignRequest(data)
      [] type = "saveProjectFile" -> ProjectFileRequest(data)

\* if (!this.supabase || !this.userContext), negated
CanDispatch == supabase /\ userContext # NoContext

----------------------------------------------------------------------------
(* The queue *)

\* Mutant of QueueOperation: the entry is put at the head of the queue.
QueueOperationAtHead(queue, type, data) ==
    <<[type |-> type, data |-> data, timestamp |-> now]>> \o queue

\* queueOperation, first statement: push { type, data, timestamp: Date.now() }
QueueOperation(queue, type, data) ==
    Append(queue, [type |-> type, data |-> data, timestamp |-> now])

\* Mutant of SetItem: the queue is stored before the new entry is pushed.
SetItemBeforePush(queue) == SubSeq(queue, 1, Len(queue) - 1)

\* localStorage.setItem('supabase_offline_queue', JSON.stringify(queue)): the
\* value of the item, written as the array the JSON text encodes.  The
\* entries hold strings and numbers only; a field that is undefined
\* (ChatMessage.id = NoId) is left out of the text and stays undefined.
SetItem(queue) == queue

\* What a save operation does with its payload when the store request
\* returned an error or threw.
OnSaveFailure(queue, type, data) == QueueOperation(queue, type, data)

\* What a save operation does with its payload when the client or the
\* user context is missing.
OnSaveBlocked(queue, type, data) == QueueOperation(queue, type, data)

\* saveUserSettings returns (resp. logs the error) and queues nothing.
OnSettingsBlocked(queue, settings) == queue
OnSettingsFailure(queue, settings) == queue

\* Mutant of OnGetFailure: the read is queued like a failed save.
QueueFailedGet(queue, op) == QueueOperation(queue, op.op, op.projectId)

\* A read operation whose select failed returns [] and queues nothing.
OnGetFailure(queue, op) == queue

RECURSIVE DrainHeld(_)
DrainHeld(ds) ==
    IF ds = {} THEN 0
    ELSE LET d == CHOOSE x \in ds : TRUE
         IN (IF drains[d] = NoDrain THEN 0 ELSE Len(drains[d].queue) - drains[d].i + 1)
            + DrainHeld(ds \ {d})

\* Operations that are queued, suspended on the store or held in the
\* snapshot of a drain.
OpsOutstanding ==
    Len(offlineQueue) + Cardinality({c \in Callers : calls[c] # Idle}) + DrainHeld(DrainIds)

\* A new call takes the first free caller slot.
FreeCaller(c) == calls[c] = Idle /\ \A b \in Callers : b < c => calls[b] # Idle

\* this.offlineQueue becomes queue; when that is the work of queueOperation
\* (the queue has grown) the new queue is written to localStorage as well.
Enqueued(queue) ==
    /\ offlineQueue' = queue
    /\ persisted' = IF queue # offlineQueue THEN SetItem(queue) ELSE persisted

----------------------------------------------------------------------------
(* Construction *)

\* The fields of the service, the hook, the environment and the store
\* after construction.
Constructed ==
    /\ supabase \in BOOLEAN         \* supabaseUrl && supabaseAnonKey
    /\ userContext = NoContext
    /\ isOnline \in BOOLEAN         \* navigator.onLine
    /\ offlineQueue = <<>>
    /\ persisted = <<>>
    /\ now = 0
    /\ storeMode \in StoreModes
    /\ chat_history = {}
    /\ design_files = {}
    /\ project_files = {}
    /\ user_settings = {}
    /\ users = {}
    /\ projects = {}
    /\ canvas_snapshots = {}
    /\ session = NoUser
    /\ drains = [d \in DrainIds |-> NoDrain]
    /\ returned = NoReturn

Init ==
    /\ Constructed
    /\ calls = [c \in Callers |-> Idle]

\* The page is reloaded and the module constructs the service again: the
\* fields take their initial values and every suspended task is gone;
\* localStorage, the environment and the remote store stay.
Restart ==
    /\ userContext' = NoContext
    /\ offlineQueue' = <<>>
    /\ calls' = [c \in Callers |-> Idle]
    /\ drains' = [d \in DrainIds |-> NoDrain]
    /\ returned' = NoReturn
    /\ UNCHANGED <<supabase, session, isOnline, persisted, now, storeMode, tables>>

----------------------------------------------------------------------------
(* Environment *)

Tick ==
    /\ now < MaxClock
    /\ now' = now + 1
    /\ UNCHANGED <<supabase, session, userContext, isOnline, offlineQueue, persisted, storeMode,
                   tables, calls, drains, returned>>

SetStoreMode(m) ==
    /\ m # storeMode
    /\ storeMode' = m
    /\ UNCHANGED <<supabase, session, userContext, isOnline, offlineQueue, persisted, now,
                   tables, calls, drains, returned>>

----------------------------------------------------------------------------
(* setUserContext *)

setUserContext(context) ==
    /\ userContext' = context
    /\ UNCHANGED <<supabase, session, isOnline, offlineQueue, persisted, now, storeMode,
                   tables, calls, drains, returned>>

----------------------------------------------------------------------------
(* Save operations, called by the application *)

\* The synchronous part of saveChatMessage / saveDesignFile /
\* saveProjectFile: queue and return, or hand the upsert to the store and
\* suspend.
SaveCall(c, type, data) ==
    /\ calls[c] = Idle
    /\ IF ~CanDispatch
       THEN /\ Enqueued(OnSaveBlocked(offlineQueue, type, data))
            /\ returned' = Return(type, Void, FALSE)
            /\ calls' = calls
       ELSE /\ calls' = [calls EXCEPT ![c] =
                            [op |-> type, data |-> data, req |-> SaveRequest(type, data)]]
            /\ UNCHANGED <<offlineQueue, persisted, returned>>
    /\ UNCHANGED <<supabase, session, userContext, isOnline, now, storeMode, tables, drains>>

\* The continuation after the await of the upsert.
SaveResume(c, type) ==
    /\ calls[c].op = type
    /\ ApplyWrite(calls[c].req)
    /\ Enqueued(IF Failed THEN OnSaveFailure(offlineQueue, type, calls[c].data)
                ELSE offlineQueue)
    /\ returned' = Return(type, Void, FALSE)
    /\ calls' = [calls EXCEPT ![c] = Idle]
    /\ UNCHANGED <<supabase, session, userContext, isOnline, now, storeMode, drains>>

saveChatMessage(c, message) == SaveCall(c, "saveChatMessage", message)
saveChatMessageResume(c) == SaveResume(c, "saveChatMessage")

saveDesignFile(c, file) == SaveCall(c, "saveDesignFile", file)
saveDesignFileResume(c) == SaveResume(c, "saveDesignFile")

saveProjectFile(c, file) == SaveCall(c, "saveProjectFile", file)
saveProjectFileResume(c) == SaveResume(c, "saveProjectFile")

saveUserSettings(c, settings) ==
    /\ calls[c] = Idle
    /\ IF ~CanDispatch
       THEN /\ Enqueued(OnSettingsBlocked(offlineQueue, settings))
            /\ returned' = Return("saveUserSettings", Void, FALSE)
            /\ calls' = calls
       ELSE /\ calls' = [calls EXCEPT ![c] =
                            [op |-> "saveUserSettings", data |-> settings,
                             req |-> SettingsRequest(settings)]]
            /\ UNCHANGED <<offlineQueue, persisted, returned>>
    /\ UNCHANGED <<supabase, session, userContext, isOnline, now, storeMode, tables, drains>>

saveUserSettingsResume(c) ==
    /\ calls[c].op = "saveUserSettings"
    /\ ApplyWrite(calls[c].req)
    /\ Enqueued(IF Failed THEN OnSettingsFailure(offlineQueue, calls[c].data)
                ELSE offlineQueue)
    /\ returned' = Return("saveUserSettings", Void, FALSE)
    /\ calls' = [calls EXCEPT ![c] = Idle]
    /\ UNCHANGED <<supabase, session, userContext, isOnline, now, storeMode, drains>>

----------------------------------------------------------------------------
(* Read operations *)

\* design_files .select('*').eq('project_id', projectId).eq('user_id', userId),
\* mapped to the shape the operation returns
DesignFileRows(projectId, userId) ==
    {[projectId |-> r.project_id, filePath |-> r.file_path, fileType |-> r.file_type,
      content |-> r.content] :
        r \in {x \in design_files : x.project_id = projectId /\ x.user_id = userId}}

\* The synchronous part of getDesignFiles: return [], or hand the select to
\* the store and suspend.
getDesignFiles(c, projectId) ==
    /\ calls[c] = Idle
    /\ IF ~CanDispatch
       THEN /\ returned' = Return("getDesignFiles", {}, FALSE)
            /\ calls' = calls
       ELSE /\ calls' = [calls EXCEPT ![c] =
                            [op |-> "getDesignFiles", projectId |-> projectId,
                             userId |-> userContext.userId]]
            /\ returned' = returned
    /\ UNCHANGED <<supabase, session, userContext, isOnline, offlineQueue, persisted, now,
                   storeMode, tables, drains>>

\* The continuation after the await of the select: the rows, or [] on an
\* error or an exception.
getDesignFilesResume(c) ==
    /\ calls[c].op = "getDesignFiles"
    /\ Enqueued(IF Failed THEN OnGetFailure(offlineQueue, calls[c]) ELSE offlineQueue)
    /\ returned' = Return("getDesignFiles",
                          IF Failed THEN {}
                          ELSE DesignFileRows(calls[c].projectId, calls[c].userId),
                          FALSE)
    /\ calls' = [calls EXCEPT ![c] = Idle]
    /\ UNCHANGED <<supabase, session, userContext, isOnline, now, storeMode, tables, drains>>

----------------------------------------------------------------------------
(* The operations without queue fallback: reads, deletes, projects, canvas *)

ProjectNames == {"Site"}
CanvasStates == {"canvas1"}
ProjectUpdates == {[name |-> "Renamed"]}

\* .limit(50)
ProjectsLimit == 50

\* The synchronous part of such an operation: return blocked when the
\* client or the user context is missing, or hand req to the store and
\* suspend.
Dispatch(c, op, req, blocked) ==
    /\ calls[c] = Idle
    /\ IF ~CanDispatch
       THEN /\ returned' = blocked
            /\ calls' = calls
       ELSE /\ calls' = [calls EXCEPT ![c] = [op |-> op, req |-> req]]
            /\ returned' = returned
    /\ UNCHANGED <<supabase, session, userContext, isOnline, offlineQueue, persisted, now,
                   storeMode, tables, drains>>

\* Mutant of OnReadFailure: the error of the select is passed on to the
\* caller.
RethrowReadFailure(op) == Return(op, {}, TRUE)

\* What a read operation returns when its select failed: [] / null, the
\* error is logged.
OnReadFailure(op) == Return(op, {}, FALSE)

\* The continuation after the await of the request: the store has handled
\* it, the operation returns result.
Answer(c, op, result) ==
    /\ calls[c].op = op
    /\ ApplyRequest(calls[c].req)
    /\ returned' = result
    /\ calls' = [calls EXCEPT ![c] = Idle]
    /\ UNCHANGED <<supabase, session, userContext, isOnline, offlineQueue, persisted, now,
                   storeMode, drains>>

\* Chat history

ChatHistoryRequest(projectId) ==
    Select("chat_history", [project_id |-> projectId, user_id |-> userContext.userId])

getChatHistory(c, projectId) ==
    Dispatch(c, "getChatHistory", ChatHistoryRequest(projectId),
             Return("getChatHistory", {}, FALSE))

getChatHistoryResume(c) ==
    Answer(c, "getChatHistory",
           IF Failed THEN OnReadFailure("getChatHistory")
           ELSE Return("getChatHistory",
                       {[id |-> msg.id, role |-> msg.role, content |-> msg.content] :
                           msg \in Rows(calls[c].req)},
                       FALSE))

\* Mutant of DeleteChatHistoryRequest: the delete is scoped by project only.
DeleteChatHistoryOfProject(projectId) ==
    Delete("chat_history", [project_id |-> projectId])

DeleteChatHistoryRequest(projectId) ==
    Delete("chat_history", [project_id |-> projectId, user_id |-> userContext.userId])

deleteChatHistory(c, projectId) ==
    Dispatch(c, "deleteChatHistory", DeleteChatHistoryRequest(projectId),
             Return("deleteChatHistory", Void, FALSE))

deleteChatHistoryResume(c) ==
    Answer(c, "deleteChatHistory", Return("deleteChatHistory", Void, FALSE))

\* Projects

\* The columns the insert does not name take the defaults of the store:
\* updated_at the time of the insert, canvas_state null.
CreateProjectRequest(name) ==
    Insert("projects", [id |-> Null, user_id |-> userContext.userId, name |-> name,
                        status |-> "active", canvas_state |-> Null, updated_at |-> now])

\* Mutant of Throws: the error is logged and the call returns nothing.
SwallowsError(op) == Return(op, {}, FALSE)

\* throw new Error('Not authenticated') / throw error: the call ends with
\* an exception and without a result
Throws(op) == Return(op, {}, TRUE)

createProject(c, name) ==
    Dispatch(c, "createProject", CreateProjectRequest(name), Throws("createProject"))

createProjectResume(c) ==
    Answer(c, "createProject",
           IF Failed THEN Throws("createProject")
           ELSE Return("createProject", {NewId("p", projects)}, FALSE))

ProjectsRequest ==
    Select("projects", [user_id |-> userContext.userId, status |-> "active"])

\* .order('updated_at', { ascending: false }): the rows as a sequence, the
\* latest update first (rows of one update time in an order of the store's
\* choosing)
RECURSIVE Ordered(_)
Ordered(rows) ==
    IF rows = {} THEN <<>>
    ELSE LET first == CHOOSE r \in rows : \A o \in rows : o.updated_at <= r.updated_at
         IN <<first>> \o Ordered(rows \ {first})

\* Mutant of Limit: every row of the answer is kept.
Unlimited(rows, n) == rows

\* .limit(n): the first n rows of the answer
Limit(rows, n) == IF Len(rows) <= n THEN rows ELSE SubSeq(rows, 1, n)

\* An array handed to the caller, as the set of its entries.
Entries(array) == {[index |-> k, row |-> array[k]] : k \in 1..Len(array)}

getProjects(c) ==
    Dispatch(c, "getProjects", ProjectsRequest, Return("getProjects", {}, FALSE))

getProjectsResume(c) ==
    Answer(c, "getProjects",
           IF Failed THEN OnReadFailure("getProjects")
           ELSE Return("getProjects",
                       Entries(Limit(Ordered(Rows(calls[c].req)), ProjectsLimit)), FALSE))

UpdateProjectRequest(projectId, updates) ==
    Update("projects", updates, [id |-> projectId, user_id |-> userContext.userId])

updateProject(c, projectId, updates) ==
    Dispatch(c, "updateProject", UpdateProjectRequest(projectId, updates),
             Return("updateProject", Void, FALSE))

updateProjectResume(c) ==
    Answer(c, "updateProject", Return("updateProject", Void, FALSE))

\* Mutant of DeleteProjectRequest: the row is deleted, as a design file is.
DeleteProjectRow(projectId) ==
    Delete("projects", [id |-> projectId, user_id |-> userContext.userId])

DeleteProjectRequest(projectId) ==
    Update("projects", [status |-> "deleted"],
           [id |-> projectId, user_id |-> userContext.userId])

deleteProject(c, projectId) ==
    Dispatch(c, "deleteProject", DeleteProjectRequest(projectId),
             Return("deleteProject", Void, FALSE))

deleteProjectResume(c) ==
    Answer(c, "deleteProject", Return("deleteProject", Void, FALSE))

\* Design files

DeleteDesignFileRequest(projectId, filePath) ==
    Delete("design_files", [project_id |-> projectId, file_path |-> filePath,
                            user_id |-> userContext.userId])

deleteDesignFile(c, projectId, filePath) ==
    Dispatch(c, "deleteDesignFile", DeleteDesignFileRequest(projectId, filePath),
             Return("deleteDesignFile", Void, FALSE))

deleteDesignFileResume(c) ==
    Answer(c, "deleteDesignFile", Return("deleteDesignFile", Void, FALSE))

\* Project files

ProjectFilesRequest(projectId) ==
    Select("project_files", [project_id |-> projectId, user_id |-> userContext.userId,
                             is_deleted |-> FALSE])

getProjectFiles(c, projectId) ==
    Dispatch(c, "getProjectFiles", ProjectFilesRequest(projectId),
             Return("getProjectFiles", {}, FALSE))

getProjectFilesResume(c) ==
    Answer(c, "getProjectFiles",
           IF Failed THEN OnReadFailure("getProjectFiles")
           ELSE Return("getProjectFiles",
                       {[projectId |-> f.project_id, filePath |-> f.file_path,
                         content |-> f.content, isDeleted |-> f.is_deleted] :
                           f \in Rows(calls[c].req)},
                       FALSE))

\* new Date().toISOString(): the text of the time t
ToISOString(t) == "T" \o ToString(t)

\* Mutant of DeleteProjectFileRequest: the row is deleted, as a design file
\* is.
DeleteProjectFileHard(projectId, filePath) ==
    Delete("project_files", [project_id |-> projectId, file_path |-> filePath,
                             user_id |-> userContext.userId])

DeleteProjectFileRequest(projectId, filePath) ==
    Update("project_files", [is_deleted |-> TRUE, deleted_at |-> ToISOString(now)],
           [project_id |-> projectId, file_path |-> filePath,
            user_id |-> userContext.userId])

deleteProjectFile(c, projectId, filePath) ==
    Dispatch(c, "deleteProjectFile", DeleteProjectFileRequest(projectId, filePath),
             Return("deleteProjectFile", Void, FALSE))

deleteProjectFileResume(c) ==
    Answer(c, "deleteProjectFile", Return("deleteProjectFile", Void, FALSE))

\* User settings

UserSettingsRequest == Select("user_settings", [user_id |-> userContext.userId])

getUserSettings(c) ==
    Dispatch(c, "getUserSettings", UserSettingsRequest,
             Return("getUserSettings", {}, FALSE))

\* .single(): without exactly one row the answer carries an error, and the
\* operation returns null
getUserSettingsResume(c) ==
    Answer(c, "getUserSettings",
           IF Failed \/ Cardinality(Rows(calls[c].req)) # 1
           THEN OnReadFailure("getUserSettings")
           ELSE Return("getUserSettings",
                       {[theme |-> data.theme] : data \in Rows(calls[c].req)}, FALSE))

\* Canvas

SaveCanvasStateRequest(projectId, canvasState) ==
    Update("projects", [canvas_state |-> canvasState],
           [id |-> projectId, user_id |-> userContext.userId])

saveCanvasState(c, projectId, canvasState) ==
    Dispatch(c, "saveCanvasState", SaveCanvasStateRequest(projectId, canvasState),
             Return("saveCanvasState", Void, FALSE))

saveCanvasStateResume(c) ==
    Answer(c, "saveCanvasState", Return("saveCanvasState", Void, FALSE))

CanvasStateRequest(projectId) ==
    Select("projects", [id |-> projectId, user_id |-> userContext.userId])

getCanvasState(c, projectId) ==
    Dispatch(c, "getCanvasState", CanvasStateRequest(projectId),
             Return("getCanvasState", {}, FALSE))

getCanvasStateResume(c) ==
    Answer(c, "getCanvasState",
           IF Failed \/ Cardinality(Rows(calls[c].req)) # 1
           THEN OnReadFailure("getCanvasState")
           ELSE Return("getCanvasState",
                       {data.canvas_state : data \in Rows(calls[c].req)}, FALSE))

\* name || `Snapshot ${new Date().toLocaleString()}`
SnapshotName(name) == IF name # Null THEN name ELSE "Snapshot " \o ToString(now)

\* Mutant of CanvasSnapshotRequest: the snapshot of the project is kept in
\* one row, which every call overwrites.
CanvasSnapshotOverwrites(projectId, canvasState, name) ==
    Update("canvas_snapshots", [canvas_state |-> canvasState, name |-> SnapshotName(name)],
           [project_id |-> projectId, user_id |-> userContext.userId])

CanvasSnapshotRequest(projectId, canvasState, name) ==
    Insert("canvas_snapshots",
           [id |-> Null, project_id |-> projectId, user_id |-> userContext.userId,
            canvas_state |-> canvasState, name |-> SnapshotName(name)])

createCanvasSnapshot(c, projectId, canvasState, name) ==
    Dispatch(c, "createCanvasSnapshot",
             CanvasSnapshotRequest(projectId, canvasState, name),
             Return("createCanvasSnapshot", Void, FALSE))

createCanvasSnapshotResume(c) ==
    Answer(c, "createCanvasSnapshot", Return("createCanvasSnapshot", Void, FALSE))

----------------------------------------------------------------------------
(* ensureUser, and the hook useSupabasePersistence that calls it *)

ExternalIds == {"c1", "c2"}     \* Clerk user ids

Email(clerkUserId) == clerkUserId \o "@example.com"

LookupRequest(clerkUserId) == Select("users", [clerk_user_id |-> clerkUserId])

LastLoginRequest(clerkUserId) ==
    Update("users", [last_login_at |-> now], [clerk_user_id |-> clerkUserId])

CreateUserRequest(clerkUserId) ==
    Insert("users", [id |-> Null, clerk_user_id |-> clerkUserId,
                     email |-> Email(clerkUserId), last_login_at |-> now])

\* ensureUser resolves with id; when the hook's initializeUser awaited it,
\* the continuation of initializeUser sets the user context.
EnsureUserReturns(c, id) ==
    /\ returned' = Return("ensureUser", {id}, FALSE)
    /\ userContext' = IF calls[c].hook
                      THEN [userId |-> id, clerkUserId |-> calls[c].clerkUserId]
                      ELSE userContext
    /\ calls' = [calls EXCEPT ![c] = Idle]

\* ensureUser rejects; the hook's initializeUser catches the error.
EnsureUserThrows(c) ==
    /\ returned' = Return("ensureUser", {}, TRUE)
    /\ userContext' = userContext
    /\ calls' = [calls EXCEPT ![c] = Idle]

\* ensureUser up to the await of its select
EnsureUserCall(c, clerkUserId, hook) ==
    /\ calls[c] = Idle
    /\ IF ~supabase
       THEN /\ returned' = Return("ensureUser", {}, TRUE)
            /\ calls' = calls
       ELSE /\ calls' = [calls EXCEPT ![c] =
                            [op |-> "ensureUser", pc |-> "select", hook |-> hook,
                             clerkUserId |-> clerkUserId, existingUser |-> Null,
                             req |-> LookupRequest(clerkUserId)]]
            /\ returned' = returned
    /\ UNCHANGED <<supabase, userContext, isOnline, offlineQueue, persisted, now,
                   storeMode, tables, drains>>

ensureUser(c, clerkUserId) ==
    /\ EnsureUserCall(c, clerkUserId, FALSE)
    /\ session' = session

\* .single(): the one row of the answer, or no data (and an error) when the
\* answer has no row or several
Single(rows) == IF Cardinality(rows) = 1 THEN CHOOSE r \in rows : TRUE ELSE [id |-> Null]

\* The continuation after the select: the error of the answer is not looked
\* at; with a row the update of last_login_at is sent, without data the insert.
ensureUserSelected(c) ==
    /\ calls[c].op = "ensureUser" /\ calls[c].pc = "select"
    /\ IF Threw
       THEN EnsureUserThrows(c)
       ELSE LET existingUser == IF ErrorResult THEN Null ELSE Single(Rows(calls[c].req)).id
            IN /\ calls' = [calls EXCEPT ![c] =
                     IF existingUser # Null
                     THEN [@ EXCEPT !.pc = "update", !.existingUser = existingUser,
                                    !.req = LastLoginRequest(calls[c].clerkUserId)]
                     ELSE [@ EXCEPT !.pc = "insert",
                                    !.req = CreateUserRequest(calls[c].clerkUserId)]]
               /\ UNCHANGED <<returned, userContext>>
    /\ UNCHANGED <<supabase, session, isOnline, offlineQueue, persisted, now, storeMode,
                   tables, drains>>

\* The continuation after the update: its result is not looked at.
ensureUserUpdated(c) ==
    /\ calls[c].op = "ensureUser" /\ calls[c].pc = "update"
    /\ ApplyRequest(calls[c].req)
    /\ IF Threw THEN EnsureUserThrows(c) ELSE EnsureUserReturns(c, calls[c].existingUser)
    /\ UNCHANGED <<supabase, session, isOnline, offlineQueue, persisted, now, storeMode,
                   drains>>

\* The insert finds a row with its clerk_user_id and the table has a unique
\* constraint on that column (the schema is not part of the sources: both
\* kinds of table are possible).
Conflict(req, unique) ==
    unique /\ Selected(users, [clerk_user_id |-> req.row.clerk_user_id]) # {}

\* The continuation after the insert: if (error) throw error, else the id
\* of the new row.
ensureUserInserted(c) ==
    /\ calls[c].op = "ensureUser" /\ calls[c].pc = "insert"
    /\ \E unique \in BOOLEAN :
          IF Conflict(calls[c].req, unique)
          THEN /\ UNCHANGED tables
               /\ EnsureUserThrows(c)
          ELSE /\ ApplyRequest(calls[c].req)
               /\ IF Failed THEN EnsureUserThrows(c)
                  ELSE EnsureUserReturns(c, NewId("u", users))
    /\ UNCHANGED <<supabase, session, isOnline, offlineQueue, persisted, now, storeMode,
                   drains>>

\* Clerk reports a signed-in user; the effect of the hook runs
\* initializeUser, which calls ensureUser.
SignIn(c, user) ==
    /\ session = NoUser
    /\ session' = user
    /\ EnsureUserCall(c, user, TRUE)

\* Clerk reports that the user has signed out; the effect runs
\* initializeUser, which returns at its guard (!isSignedIn).
SignOut ==
    /\ session # NoUser
    /\ session' = NoUser
    /\ UNCHANGED <<supabase, userContext, isOnline, offlineQueue, persisted, now,
                   storeMode, tables, calls, drains, returned>>

----------------------------------------------------------------------------
(* getSyncStatus *)

\* Mutant of SyncStatus: the length of the stored copy of the queue is
\* reported, and a configured client counts as authenticated.
SyncStatusOfStorage ==
    [online |-> isOnline,
     queuedOperations |-> Len(persisted),
     authenticated |-> supabase]

\* { online: this.isOnline, queuedOperations: this.offlineQueue.length,
\*   authenticated: !!this.userContext }
SyncStatus ==
    [online |-> isOnline,
     queuedOperations |-> Len(offlineQueue),
     authenticated |-> userContext # NoContext]

getSyncStatus ==
    /\ returned' = Return("getSyncStatus", {SyncStatus}, FALSE)
    /\ UNCHANGED <<supabase, session, userContext, isOnline, offlineQueue, persisted, now,
                   storeMode, tables, calls, drains>>

----------------------------------------------------------------------------
(* Drain: processOfflineQueue *)

\* Mutant of DrainGuard: the pass checks the connectivity flag only.
DrainGuardOnlineOnly(online) == online

\* if (!this.isOnline || !this.supabase || !this.userContext) return, negated
DrainGuard(online) == online /\ supabase /\ userContext # NoContext

\* The for-loop of processOfflineQueue from position i of its local copy
\* `queue`, run until a replayed save suspends on its upsert or the loop
\* ends.  live is this.offlineQueue.  A replayed save that finds the client
\* or the context missing queues its payload and returns, and the loop goes
\* on.  stored tells whether localStorage was written on the way (by
\* queueOperation, or by the setItem that ends the pass).  The catch of the
\* loop is not a separate outcome: the save operations catch every error of
\* their request themselves and never throw.
\* Mutant of RunDrain: a pass ends at the first replayed save that failed
\* and puts the operations it has not attempted back on the queue.
RECURSIVE RunDrainUntilFailure(_, _, _)
RunDrainUntilFailure(queue, i, live) ==
    IF i > Len(queue)
    THEN [live |-> live, drain |-> NoDrain, stored |-> TRUE]
    ELSE IF i > 1 /\ Failed
         THEN [live |-> live \o SubSeq(queue, i, Len(queue)), drain |-> NoDrain,
               stored |-> TRUE]
         ELSE IF ~CanDispatch
              THEN [RunDrainUntilFailure(queue, i + 1,
                                         OnSaveBlocked(live, queue[i].type, queue[i].data))
                       EXCEPT !.stored = TRUE]
              ELSE [live |-> live,
                    drain |-> [queue |-> queue, i |-> i,
                               req |-> SaveRequest(queue[i].type, queue[i].data)],
                    stored |-> FALSE]

RECURSIVE RunDrain(_, _, _)
RunDrain(queue, i, live) ==
    IF i > Len(queue)
    THEN [live |-> live, drain |-> NoDrain, stored |-> TRUE]
    ELSE IF ~CanDispatch
         THEN [RunDrain(queue, i + 1, OnSaveBlocked(live, queue[i].type, queue[i].data))
                  EXCEPT !.stored = TRUE]
         ELSE [live |-> live,
               drain |-> [queue |-> queue, i |-> i,
                          req |-> SaveRequest(queue[i].type, queue[i].data)],
               stored |-> FALSE]

\* Mutant of Snapshot: a pass takes the first entry only and leaves the
\* rest in the queue (one pass per queued entry).
SnapshotFirst(queue) ==
    IF queue = <<>> THEN [queue |-> <<>>, live |-> <<>>]
    ELSE [queue |-> <<Head(queue)>>, live |-> Tail(queue)]

\* Mutant of Snapshot: the queue is copied and the live queue is not
\* cleared before the first await.
SnapshotWithoutClear(queue) == [queue |-> queue, live |-> queue]

\* const queue = [...this.offlineQueue]; this.offlineQueue = []
Snapshot(queue) == [queue |-> queue, live |-> <<>>]

\* processOfflineQueue from its guard to its first await (or to its end),
\* with online the value of this.isOnline
processOfflineQueue(online) ==
    IF DrainGuard(online)
    THEN LET s == Snapshot(offlineQueue)
             r == RunDrain(s.queue, 1, s.live)
         IN /\ offlineQueue' = r.live
            /\ persisted' = (IF r.stored THEN SetItem(r.live) ELSE persisted)
            /\ IF r.drain = NoDrain
               THEN drains' = drains
               ELSE \E d \in DrainIds :
                       /\ drains[d] = NoDrain
                       /\ \A e \in DrainIds : e < d => drains[e] # NoDrain
                       /\ drains' = [drains EXCEPT ![d] = r.drain]
    ELSE UNCHANGED <<offlineQueue, persisted, drains>>

\* window 'online' event
handleOnline ==
    /\ ~isOnline
    /\ isOnline' = TRUE
    /\ processOfflineQueue(TRUE)
    /\ UNCHANGED <<supabase, session, userContext, now, storeMode, tables, calls, returned>>

\* Mutant of handleOffline: the queue is processed before the flag is
\* cleared, as in handleOnline.
handleOfflineAndDrain ==
    /\ isOnline
    /\ isOnline' = FALSE
    /\ processOfflineQueue(TRUE)
    /\ UNCHANGED <<supabase, session, userContext, now, storeMode, tables, calls,
                   returned>>

\* window 'offline' event
handleOffline ==
    /\ isOnline
    /\ isOnline' = FALSE
    /\ UNCHANGED <<supabase, session, userContext, offlineQueue, persisted, now, storeMode,
                   tables, calls, drains, returned>>

\* Mutant of processOfflineQueueResume: the loop runs over the live queue,
\* so a replayed save that failed is queued behind the operations the pass
\* still has to attempt, and is attempted again.
processOfflineQueueOverLiveQueue(d) ==
    /\ drains[d] # NoDrain
    /\ LET op == drains[d].queue[drains[d].i]
           queue == IF Failed THEN OnSaveFailure(drains[d].queue, op.type, op.data)
                    ELSE drains[d].queue
           r == RunDrain(queue, drains[d].i + 1, offlineQueue)
       IN /\ ApplyWrite(drains[d].req)
          /\ offlineQueue' = r.live
          /\ persisted' = (IF r.stored \/ Failed THEN SetItem(queue) ELSE persisted)
          /\ drains' = [drains EXCEPT ![d] = r.drain]
    /\ UNCHANGED <<supabase, session, userContext, isOnline, now, storeMode, calls, returned>>

\* The continuation of a drain pass after the await of a replayed save: the
\* save handles the answer of its upsert, then the loop goes on.
processOfflineQueueResume(d) ==
    /\ drains[d] # NoDrain
    /\ LET op == drains[d].queue[drains[d].i]
           live == IF Failed THEN OnSaveFailure(offlineQueue, op.type, op.data)
                   ELSE offlineQueue
           r == RunDrain(drains[d].queue, drains[d].i + 1, live)
       IN /\ ApplyWrite(drains[d].req)
          /\ offlineQueue' = r.live
          /\ persisted' = (IF r.stored \/ live # offlineQueue THEN SetItem(r.live)
                           ELSE persisted)
          /\ drains' = [drains EXCEPT ![d] = r.drain]
    /\ UNCHANGED <<supabase, session, userContext, isOnline, now, storeMode, calls, returned>>

----------------------------------------------------------------------------
(* Specifications *)

\* The queue and its replay, exercised with chat messages.
Next ==
    \/ Tick
    \/ \E m \in {"ok", "reject"} : SetStoreMode(m)
    \/ \E context \in Contexts : setUserContext(context)
    \/ \E c \in Callers, message \in QueueMessage :
          OpsOutstanding < MaxOps /\ FreeCaller(c) /\ saveChatMessage(c, message)
    \/ \E c \in Callers : saveChatMessageResume(c)
    \/ handleOnline
    \/ handleOffline
    \/ \E d \in DrainIds : processOfflineQueueResume(d)

QueueInit == Init /\ storeMode \in {"ok", "reject"}

Spec == QueueInit /\ [][Next]_vars

\* The whole gateway: every save and read operation, two payloads per key.
GatewayInit == Init /\ storeMode \in {"ok", "reject"}

GatewayNext ==
    \/ \E m \in {"ok", "reject"} : SetStoreMode(m)
    \/ \E context \in Contexts : setUserContext(context)
    \/ \E c \in Callers, message \in ChatMessage :
          OpsOutstanding < MaxGatewayOps /\ FreeCaller(c) /\ saveChatMessage(c, message)
    \/ \E c \in Callers : saveChatMessageResume(c)
    \/ \E c \in Callers, file \in DesignFile :
          OpsOutstanding < MaxGatewayOps /\ FreeCaller(c) /\ saveDesignFile(c, file)
    \/ \E c \in Callers : saveDesignFileResume(c)
    \/ \E c \in Callers, file \in ProjectFile :
          OpsOutstanding < MaxGatewayOps /\ FreeCaller(c) /\ saveProjectFile(c, file)
    \/ \E c \in Callers : saveProjectFileResume(c)
    \/ \E c \in Callers, settings \in UserSettings :
          OpsOutstanding < MaxGatewayOps /\ FreeCaller(c) /\ saveUserSettings(c, settings)
    \/ \E c \in Callers : saveUserSettingsResume(c)
    \/ \E c \in Callers, projectId \in Projects :
          OpsOutstanding < MaxGatewayOps /\ FreeCaller(c) /\ getDesignFiles(c, projectId)
    \/ \E c \in Callers : getDesignFilesResume(c)
    \/ handleOnline
    \/ handleOffline
    \/ \E d \in DrainIds : processOfflineQueueResume(d)

GatewaySpec == GatewayInit /\ [][GatewayNext]_vars

\* The queue across a reload of the page.
RestartNext == Next \/ Restart

RestartSpec == QueueInit /\ [][RestartNext]_vars

\* Rows of chat_history that a save of message writes: the row of its id,
\* or any row with a generated id.
SuppliedIds == {"m1", "m2"}
RowOf(message, row) ==
    IF message.id # NoId THEN row.id = message.id ELSE row.id \notin SuppliedIds

InQueue(message, queue) ==
    \E k \in 1..Len(queue) : queue[k].type = "saveChatMessage" /\ queue[k].data = message

\* The application has handed message to saveChatMessage.
Issued(message) ==
    \/ InQueue(message, offlineQueue)
    \/ \E c \in Callers : calls[c].op = "saveChatMessage" /\ calls[c].data = message
    \/ \E d \in DrainIds : InQueue(message, drains[d].queue)
    \/ \E row \in chat_history : RowOf(message, row)

\* Retries: the application hands every message to saveChatMessage once, one
\* of them without an id; what follows are the retries of the service.
RetryNext ==
    \/ Tick
    \/ \E m \in StoreModes : SetStoreMode(m)
    \/ \E context \in Contexts : setUserContext(context)
    \/ \E c \in Callers, message \in RetryMessage :
          /\ ~Issued(message)
          /\ OpsOutstanding < MaxOps /\ FreeCaller(c) /\ saveChatMessage(c, message)
    \/ \E c \in Callers : saveChatMessageResume(c)
    \/ handleOnline
    \/ handleOffline
    \/ \E d \in DrainIds : processOfflineQueueResume(d)

RetrySpec == Init /\ [][RetryNext]_vars

\* The store answers every request: a suspended call or drain pass resumes.
\* Connectivity events, the store's mode and the application's calls are
\* under no obligation to happen.
Fairness ==
    /\ \A c \in Callers : WF_vars(saveChatMessageResume(c))
    /\ \A d \in DrainIds : WF_vars(processOfflineQueueResume(d))

FairSpec == RetrySpec /\ Fairness

\* A new call of ensureUser takes the first free session slot.
FreeSession(c) == calls[c] = Idle /\ \A b \in Sessions : b < c => calls[b] # Idle

\* ensureUser called from several tabs at once, against a store that
\* answers every request without error.
IdentityInit ==
    /\ Constructed
    /\ supabase /\ isOnline /\ storeMode = "ok"
    /\ calls = [c \in Sessions |-> Idle]

IdentityNext ==
    \/ Tick
    \/ \E c \in Sessions, clerkUserId \in ExternalIds :
          /\ Cardinality(users) < MaxUsers
          /\ FreeSession(c)
          /\ ensureUser(c, clerkUserId)
    \/ \E c \in Sessions : ensureUserSelected(c)
    \/ \E c \in Sessions : ensureUserUpdated(c)
    \/ \E c \in Sessions : ensureUserInserted(c)

IdentitySpec == IdentityInit /\ [][IdentityNext]_vars

\* ensureUser called sequentially (each call has returned before the next
\* is made), against a store that may fail.
SequentialInit ==
    /\ Constructed
    /\ calls = [c \in Sessions |-> Idle]

SequentialNext ==
    \/ Tick
    \/ \E m \in StoreModes : SetStoreMode(m)
    \/ handleOnline
    \/ handleOffline
    \/ \E clerkUserId \in ExternalIds :
          /\ Cardinality(users) < MaxUsers
          /\ \A c \in Sessions : calls[c] = Idle
          /\ ensureUser(1, clerkUserId)
    \/ ensureUserSelected(1)
    \/ ensureUserUpdated(1)
    \/ ensureUserInserted(1)

SequentialSpec == SequentialInit /\ [][SequentialNext]_vars

\* The hook over sign-in and sign-out, with the writes and the status the
\* application asks for meanwhile.
SessionNext ==
    \/ \E m \in {"ok", "reject"} : SetStoreMode(m)
    \/ \E c \in Callers, user \in ExternalIds :
          Cardinality(users) < MaxUsers /\ FreeCaller(c) /\ SignIn(c, user)
    \/ SignOut
    \/ \E c \in Callers : ensureUserSelected(c)
    \/ \E c \in Callers : ensureUserUpdated(c)
    \/ \E c \in Callers : ensureUserInserted(c)
    \/ \E c \in Callers, message \in QueueMessage :
          OpsOutstanding < MaxOps /\ FreeCaller(c) /\ saveChatMessage(c, message)
    \/ \E c \in Callers : saveChatMessageResume(c)
    \/ getSyncStatus
    \/ handleOnline
    \/ handleOffline
    \/ \E d \in DrainIds : processOfflineQueueResume(d)

SessionSpec == QueueInit /\ [][SessionNext]_vars

\* getSyncStatus, asked for between the steps that change what it reports.
StatusMessage == [id : {"m1"}, projectId : Projects, role : {"user"}, content : {"hi"}]

StatusNext ==
    \/ \E m \in {"ok", "reject"} : SetStoreMode(m)
    \/ \E context \in Contexts : setUserContext(context)
    \/ \E c \in Callers, message \in StatusMessage :
          OpsOutstanding < MaxOps /\ FreeCaller(c) /\ saveChatMessage(c, message)
    \/ \E c \in Callers : saveChatMessageResume(c)
    \/ getSyncStatus
    \/ handleOnline
    \/ handleOffline
    \/ \E d \in DrainIds : processOfflineQueueResume(d)

StatusSpec == QueueInit /\ [][StatusNext]_vars

\* The application has handed file to saveDesignFile: the save is queued,
\* under way, held by a drain pass, or its row is in the store.
IssuedFile(file) ==
    \/ \E k \in 1..Len(offlineQueue) :
          offlineQueue[k].type = "saveDesignFile" /\ offlineQueue[k].data = file
    \/ \E c \in Callers : calls[c].op = "saveDesignFile" /\ calls[c].data = file
    \/ \E d \in DrainIds : \E k \in 1..Len(drains[d].queue) :
          drains[d].queue[k].type = "saveDesignFile" /\ drains[d].queue[k].data = file
    \/ \E row \in design_files : FileKey(row) = <<file.projectId, file.filePath>>
                                 /\ row.content = file.content

\* Two saves of one design file by one caller, content "A" and then
\* content "B", each issued when the call before it has returned.
Earlier == "A"
Latest == "B"

LatestNext ==
    \/ \E m \in {"ok", "reject"} : SetStoreMode(m)
    \/ \E context \in Contexts : setUserContext(context)
    \/ \E c \in Callers, file \in DesignFile :
          /\ \A b \in Callers : calls[b] = Idle
          /\ FreeCaller(c)
          /\ file.content = Earlier => \A other \in DesignFile : ~IssuedFile(other)
          /\ file.content = Latest => ~IssuedFile(file)
          /\ saveDesignFile(c, file)
    \/ \E c \in Callers : saveDesignFileResume(c)
    \/ handleOnline
    \/ handleOffline
    \/ \E d \in DrainIds : processOfflineQueueResume(d)

LatestSpec == QueueInit /\ [][LatestNext]_vars

\* The read operations, over tables filled by the saves and createProject,
\* against a store that may answer with an error or not at all.
ReadMessage == [id : {"m1"}, projectId : Projects, role : {"user"}, content : {"hi"}]
ReadDesignFile == [projectId : Projects, filePath : Paths, fileType : {"html"},
                   content : {"A"}]
ReadProjectFile == [projectId : Projects, filePath : Paths, content : {"A"}]

ReadNext ==
    \/ \E m \in StoreModes : SetStoreMode(m)
    \/ \E context \in Contexts : setUserContext(context)
    \/ \E c \in Callers, message \in ReadMessage :
          OpsOutstanding < MaxGatewayOps /\ FreeCaller(c) /\ saveChatMessage(c, message)
    \/ \E c \in Callers : saveChatMessageResume(c)
    \/ \E c \in Callers, file \in ReadDesignFile :
          OpsOutstanding < MaxGatewayOps /\ FreeCaller(c) /\ saveDesignFile(c, file)
    \/ \E c \in Callers : saveDesignFileResume(c)
    \/ \E c \in Callers, file \in ReadProjectFile :
          OpsOutstanding < MaxGatewayOps /\ FreeCaller(c) /\ saveProjectFile(c, file)
    \/ \E c \in Callers : saveProjectFileResume(c)
    \/ \E c \in Callers, name \in ProjectNames :
          Cardinality(projects) < MaxProjects /\ FreeCaller(c) /\ createProject(c, name)
    \/ \E c \in Callers : createProjectResume(c)
    \/ \E c \in Callers, projectId \in Projects : FreeCaller(c) /\ getChatHistory(c, projectId)
    \/ \E c \in Callers : getChatHistoryResume(c)
    \/ \E c \in Callers : FreeCaller(c) /\ getProjects(c)
    \/ \E c \in Callers : getProjectsResume(c)
    \/ \E c \in Callers, projectId \in Projects : FreeCaller(c) /\ getDesignFiles(c, projectId)
    \/ \E c \in Callers : getDesignFilesResume(c)
    \/ \E c \in Callers, projectId \in Projects : FreeCaller(c) /\ getProjectFiles(c, projectId)
    \/ \E c \in Callers : getProjectFilesResume(c)

ReadSpec == Init /\ [][ReadNext]_vars

\* Every gateway operation, called under two identities in turn, with a
\* store client and against a store that accepts every request it receives.
OwnerContexts == {[userId |-> "u1", clerkUserId |-> "c1"],
                  [userId |-> "u2", clerkUserId |-> "c2"]}

OwnerInit == Init /\ supabase /\ storeMode = "ok"

\* The application calls the operations one at a time.
OwnerCallers == {1}

\* Rows in the tables the gateway operations write.
StoredRows ==
    Cardinality(chat_history) + Cardinality(design_files) + Cardinality(project_files)
    + Cardinality(user_settings) + Cardinality(projects) + Cardinality(canvas_snapshots)

\* A further write that may add a row is issued: fewer than MaxRows rows
\* are stored or on their way.
MayWrite(c) == StoredRows + OpsOutstanding < MaxRows /\ FreeCaller(c)

OwnerSaves ==
    \/ \E c \in OwnerCallers, message \in ReadMessage :
          MayWrite(c) /\ saveChatMessage(c, message)
    \/ \E c \in OwnerCallers : saveChatMessageResume(c)
    \/ \E c \in OwnerCallers, file \in ReadDesignFile : MayWrite(c) /\ saveDesignFile(c, file)
    \/ \E c \in OwnerCallers : saveDesignFileResume(c)
    \/ \E c \in OwnerCallers, file \in ReadProjectFile : MayWrite(c) /\ saveProjectFile(c, file)
    \/ \E c \in OwnerCallers : saveProjectFileResume(c)
    \/ \E c \in OwnerCallers, settings \in [theme : {"light"}] :
          MayWrite(c) /\ saveUserSettings(c, settings)
    \/ \E c \in OwnerCallers : saveUserSettingsResume(c)
    \/ \E c \in OwnerCallers, name \in ProjectNames : MayWrite(c) /\ createProject(c, name)
    \/ \E c \in OwnerCallers : createProjectResume(c)
    \/ \E c \in OwnerCallers, projectId \in Projects, updates \in ProjectUpdates :
          FreeCaller(c) /\ updateProject(c, projectId, updates)
    \/ \E c \in OwnerCallers : updateProjectResume(c)
    \/ \E c \in OwnerCallers, projectId \in Projects, canvasState \in CanvasStates :
          FreeCaller(c) /\ saveCanvasState(c, projectId, canvasState)
    \/ \E c \in OwnerCallers : saveCanvasStateResume(c)
    \/ \E c \in OwnerCallers, projectId \in Projects, canvasState \in CanvasStates :
          MayWrite(c) /\ createCanvasSnapshot(c, projectId, canvasState, Null)
    \/ \E c \in OwnerCallers : createCanvasSnapshotResume(c)

OwnerReads ==
    \/ \E c \in OwnerCallers, projectId \in Projects : FreeCaller(c) /\ getChatHistory(c, projectId)
    \/ \E c \in OwnerCallers : getChatHistoryResume(c)
    \/ \E c \in OwnerCallers : FreeCaller(c) /\ getProjects(c)
    \/ \E c \in OwnerCallers : getProjectsResume(c)
    \/ \E c \in OwnerCallers, projectId \in Projects : FreeCaller(c) /\ getDesignFiles(c, projectId)
    \/ \E c \in OwnerCallers : getDesignFilesResume(c)
    \/ \E c \in OwnerCallers, projectId \in Projects : FreeCaller(c) /\ getProjectFiles(c, projectId)
    \/ \E c \in OwnerCallers : getProjectFilesResume(c)
    \/ \E c \in OwnerCallers : FreeCaller(c) /\ getUserSettings(c)
    \/ \E c \in OwnerCallers : getUserSettingsResume(c)
    \/ \E c \in OwnerCallers, projectId \in Projects : FreeCaller(c) /\ getCanvasState(c, projectId)
    \/ \E c \in OwnerCallers : getCanvasStateResume(c)

OwnerDeletes ==
    \/ \E c \in OwnerCallers, projectId \in Projects :
          FreeCaller(c) /\ deleteChatHistory(c, projectId)
    \/ \E c \in OwnerCallers : deleteChatHistoryResume(c)
    \/ \E c \in OwnerCallers, projectId \in Projects : FreeCaller(c) /\ deleteProject(c, projectId)
    \/ \E c \in OwnerCallers : deleteProjectResume(c)
    \/ \E c \in OwnerCallers, projectId \in Projects, filePath \in Paths :
          FreeCaller(c) /\ deleteDesignFile(c, projectId, filePath)
    \/ \E c \in OwnerCallers : deleteDesignFileResume(c)
    \/ \E c \in OwnerCallers, projectId \in Projects, filePath \in Paths :
          FreeCaller(c) /\ deleteProjectFile(c, projectId, filePath)
    \/ \E c \in OwnerCallers : deleteProjectFileResume(c)

OwnerNext ==
    \/ \E context \in OwnerContexts : setUserContext(context)
    \/ OwnerSaves
    \/ OwnerReads
    \/ OwnerDeletes
    \/ handleOnline
    \/ handleOffline
    \/ \E d \in DrainIds : processOfflineQueueResume(d)

OwnerSpec == OwnerInit /\ [][OwnerNext]_vars

----------------------------------------------------------------------------
(* Properties *)

\* C1 (as claimed): offline and with a user context, a call of
\* saveChatMessage appends exactly one entry to the queue and hands no
\* request to the remote store.
C1_OfflineSaveQueuesWithoutRemoteCall ==
    [][\A c \in Callers, message \in QueueMessage :
          (~isOnline /\ userContext # NoContext /\ saveChatMessage(c, message))
              => (Len(offlineQueue') = Len(offlineQueue) + 1 /\ calls' = calls)]_vars

\* A drain pass whose snapshot is the single entry saveChatMessage m1.
DrainOfM1(d) ==
    /\ drains[d] # NoDrain
    /\ Len(drains[d].queue) = 1
    /\ drains[d].queue[1].type = "saveChatMessage"
    /\ drains[d].queue[1].data.id = "m1"

\* C2: when the drain of a queue that held the one entry saveChatMessage m1
\* completes while the store accepts writes, and nothing else was queued
\* meanwhile, the queue is empty (in memory and in localStorage) and the
\* store holds exactly one row with id m1.
C2_DrainDeliversQueuedMessage ==
    [][\A d \in DrainIds :
          (/\ DrainOfM1(d)
           /\ processOfflineQueueResume(d)
           /\ isOnline /\ storeMode = "ok"
           /\ offlineQueue = <<>>)
              => (/\ offlineQueue' = <<>>
                  /\ persisted' = <<>>
                  /\ drains'[d] = NoDrain
                  /\ Cardinality({row \in chat_history' : row.id = "m1"}) = 1)]_vars

\* C2 witness: the client has come back online, the drain has taken the one
\* entry m1 out of the queue and its upsert is with a store that accepts it.
C2_Witness ==
    \E d \in DrainIds :
        /\ DrainOfM1(d)
        /\ drains[d].req.row.id = "m1"
        /\ isOnline /\ storeMode = "ok" /\ userContext # NoContext
        /\ offlineQueue = <<>>
        /\ persisted = drains[d].queue
        /\ \A row \in chat_history : row.id # "m1"

\* The rows of the table of request req, after the step, that agree with
\* the row of req on the conflict key of the table.
RowsWithKeyAfter(req) ==
    CASE req.table = "chat_history" ->
            {row \in chat_history' : ChatKey(row) = ChatKey(req.row)}
      [] req.table = "design_files" ->
            {row \in design_files' : FileKey(row) = FileKey(req.row)}
      [] req.table = "project_files" ->
            {row \in project_files' : FileKey(row) = FileKey(req.row)}
      [] req.table = "user_settings" ->
            {row \in user_settings' : SettingsKey(row) = SettingsKey(req.row)}

WriteOps == SaveTypes \cup {"saveUserSettings"}

\* Caller c resumes from the upsert of a save operation and returns.
SaveReturns(c) == calls[c].op \in WriteOps /\ calls'[c] = Idle

\* The table of request req holds, after the step, exactly one row with
\* the conflict key of req, and that row has the columns req wrote.
OneRowAsWritten(req) ==
    /\ Cardinality(RowsWithKeyAfter(req)) = 1
    /\ \A row \in RowsWithKeyAfter(req) :
          \A column \in DOMAIN req.row : row[column] = req.row[column]

\* C3: when a save (issued by a caller or replayed by a drain) is accepted
\* by the store, the table holds exactly one row with the conflict key of
\* the save, and that row carries the payload of this save; so of two saves
\* with one key the second leaves the one row, with its payload.
C3_SecondSaveReplacesRow ==
    [][/\ \A c \in Callers :
             (SaveReturns(c) /\ ~Failed) => OneRowAsWritten(calls[c].req)
       /\ \A d \in DrainIds :
             (drains[d] # NoDrain /\ drains'[d] # drains[d] /\ ~Failed)
                 => OneRowAsWritten(drains[d].req)]_vars

\* C3 witness: design_files holds (p1, index.html) with content "A" and a
\* saveDesignFile of the same key with content "B" is with a store that
\* accepts it.
C3_Witness ==
    \E c \in Callers :
        /\ calls[c].op = "saveDesignFile"
        /\ calls[c].req.row.content = "B"
        /\ ~Failed
        /\ \E row \in design_files :
              /\ FileKey(row) = FileKey(calls[c].req.row)
              /\ row.content = "A"

\* C5 (as claimed): every save operation called without a user context or
\* without a store client, or while the store cannot be reached, appends
\* its payload to the queue and returns without error.
C5_BlockedSaveIsQueued ==
    [][/\ \A c \in Callers :
             (~CanDispatch /\
                 (\/ \E message \in ChatMessage : saveChatMessage(c, message)
                  \/ \E file \in DesignFile : saveDesignFile(c, file)
                  \/ \E file \in ProjectFile : saveProjectFile(c, file)
                  \/ \E settings \in UserSettings : saveUserSettings(c, settings)))
                 => (Len(offlineQueue') = Len(offlineQueue) + 1 /\ ~returned'.threw)
       /\ \A c \in Callers :
             (SaveReturns(c) /\ ~isOnline)
                 => (Len(offlineQueue') = Len(offlineQueue) + 1 /\ ~returned'.threw)]_vars

\* C6 (as claimed): a save operation whose request the store answers with
\* an error, or whose request throws, appends its payload to the queue
\* exactly once and returns without error.
C6_FailedSaveIsQueuedOnce ==
    [][\A c \in Callers :
          (SaveReturns(c) /\ Failed)
              => (/\ offlineQueue' = Append(offlineQueue,
                                            [type |-> calls[c].op, data |-> calls[c].data,
                                             timestamp |-> now])
                  /\ ~returned'.threw)]_vars

EntryTypes(queue) == {queue[k].type : k \in 1..Len(queue)}

\* C10: the queue, its copy in localStorage and the snapshot of every drain
\* hold save operations only; no read operation is ever queued.
C10_QueueHoldsOnlyWrites ==
    /\ EntryTypes(offlineQueue) \subseteq SaveTypes
    /\ EntryTypes(persisted) \subseteq SaveTypes
    /\ \A d \in DrainIds : EntryTypes(drains[d].queue) \subseteq SaveTypes

\* C10 witness: getDesignFiles is suspended on a select that fails although
\* the table holds a row it asks for.
C10_Witness ==
    \E c \in Callers :
        /\ calls[c].op = "getDesignFiles"
        /\ Failed
        /\ DesignFileRows(calls[c].projectId, calls[c].userId) # {}

\* C4 (as claimed): however often a save is retried from the queue, the
\* store holds at most one row for it; the application hands every message
\* to saveChatMessage once, so every further row of a message is a
\* duplicate made by a retry.
C4_RetryNeverDuplicates ==
    \A message \in RetryMessage :
        Cardinality({row \in chat_history : RowOf(message, row)}) <= 1

\* The user context is set, the client is online and the store accepts writes.
Settled == CanDispatch /\ isOnline /\ storeMode = "ok"

Stored(message) ==
    \E row \in chat_history : RowOf(message, row) /\ row.content = message.content

\* C7 (as claimed): a queued write is eventually in the store once the user
\* context is set, the client is online and the store accepts writes from
\* then on, with no further connectivity event needed.
C7_QueuedWriteEventuallyStored ==
    \A message \in RetryMessage :
        [](InQueue(message, offlineQueue) /\ []Settled => <>Stored(message))

\* C8 (as claimed): the service constructed again after a reload holds the
\* queue it held before.
C8_QueueSurvivesRestart == [][Restart => offlineQueue' = offlineQueue]_vars

DrainCompletes ==
    \/ \E d \in DrainIds : processOfflineQueueResume(d) /\ drains'[d] = NoDrain
    \/ handleOnline /\ DrainGuard(TRUE) /\ drains' = drains

UsersOf(clerkUserId) == Selected(users, [clerk_user_id |-> clerkUserId])

\* C12 (as claimed): concurrent first calls of ensureUser for one external
\* id leave exactly one row of users for it (and so return one id).
C12_ConcurrentEnsureUserConverges ==
    \A clerkUserId \in ExternalIds : Cardinality(UsersOf(clerkUserId)) <= 1

\* The call of ensureUser in slot c ends in this step.
EnsureUserEnds(c) == calls[c].op = "ensureUser" /\ calls'[c] = Idle

\* C13 (as claimed): a call of ensureUser (calls are sequential) for an
\* external id without a row creates exactly one row and returns its id,
\* unless it fails; for an external id with a row it creates no row, what
\* it returns is the id of that row, and it fails only if the store does.
C13_EnsureUserContract ==
    [][\A c \in Sessions :
          EnsureUserEnds(c) =>
             (IF UsersOf(calls[c].clerkUserId) = {}
              THEN \/ returned'.threw
                   \/ \E row \in users' :
                         /\ users' = users \cup {row}
                         /\ row.clerk_user_id = calls[c].clerkUserId
                         /\ returned'.result = {row.id}
              ELSE /\ Cardinality(users') = Cardinality(users)
                   /\ ~Failed => ~returned'.threw
                   /\ \/ returned'.threw
                      \/ returned'.result \subseteq
                            {row.id : row \in UsersOf(calls[c].clerkUserId)})]_vars

\* C14 (as claimed): when the store fails the lookup, the update or the
\* insert of ensureUser, the call ends there with the error: it returns no
\* id, sends no further request, and nothing is queued.
C14_EnsureUserPropagatesStoreErrors ==
    [][\A c \in Sessions :
          (/\ calls[c].op = "ensureUser"
           /\ calls'[c] # calls[c]
           /\ Failed)
              => (/\ calls'[c] = Idle
                  /\ returned'.op = "ensureUser"
                  /\ returned'.threw
                  /\ offlineQueue' = offlineQueue)]_vars

\* C16 (as claimed): the user context is cleared when the session ends
\* (so that getSyncStatus reports authenticated = false and writes are
\* queued), and while a session lasts a context that is set is not replaced.
C16_ContextBoundToSession ==
    [][/\ SignOut => userContext' = NoContext
       /\ (session' = session /\ session # NoUser /\ userContext # NoContext)
             => userContext' = userContext]_vars

\* C20: a call of getSyncStatus returns the connectivity flag, the length
\* of the queue in memory and whether a user context is set, as they are
\* when it is called, and changes nothing.
C20_SyncStatusIsDerived ==
    [][getSyncStatus =>
          /\ returned'.result = {[online |-> isOnline',
                                  queuedOperations |-> Len(offlineQueue'),
                                  authenticated |-> (userContext' # NoContext)]}
          /\ UNCHANGED <<supabase, userContext, isOnline, offlineQueue, persisted,
                         tables, calls, drains>>]_vars

\* C20 witness: getSyncStatus has returned while a drain pass is suspended:
\* the queue in memory is empty and reported so, although localStorage
\* still holds the entry the pass took.
C20_Witness ==
    /\ returned.op = "getSyncStatus"
    /\ returned.result = {[online |-> TRUE, queuedOperations |-> 0,
                           authenticated |-> TRUE]}
    /\ offlineQueue = <<>> /\ Len(persisted) = 1
    /\ \E d \in DrainIds : drains[d] # NoDrain

\* The client goes from offline to online in this step.
ComesOnline == ~isOnline /\ isOnline'

\* C18: a transition from offline to online starts one drain pass, which
\* takes the whole queue whatever its length (with an empty queue the pass
\* is over at once; without client or user context it returns at its
\* guard); no other step starts a pass or takes an entry out of the queue.
C18_OneDrainPerOnlineTransition ==
    [][/\ (ComesOnline /\ DrainGuard(TRUE)) =>
             /\ offlineQueue' = <<>>
             /\ \/ offlineQueue = <<>> /\ drains' = drains
                \/ \E d \in DrainIds :
                      /\ drains[d] = NoDrain
                      /\ drains'[d].queue = offlineQueue /\ drains'[d].i = 1
                      /\ \A e \in DrainIds \ {d} : drains'[e] = drains[e]
       /\ (ComesOnline /\ ~DrainGuard(TRUE)) => UNCHANGED <<offlineQueue, drains>>
       /\ \A d \in DrainIds : (drains[d] = NoDrain /\ drains'[d] # NoDrain) => ComesOnline
       /\ Len(offlineQueue') < Len(offlineQueue) => ComesOnline]_vars

\* C18 witness: the client has come online with two entries queued and one
\* pass holds both, its first replay under way.
C18_Witness ==
    \E d \in DrainIds :
        /\ isOnline
        /\ Len(drains[d].queue) = 2 /\ drains[d].i = 1
        /\ offlineQueue = <<>>
        /\ \A e \in DrainIds \ {d} : drains[e] = NoDrain

\* C19: a transition from online to offline changes the connectivity flag
\* only: queue, localStorage, user context and store stay as they are, no
\* drain pass starts and those under way are left alone.
C19_OfflineOnlyFlipsFlag ==
    [][(isOnline /\ ~isOnline') =>
          UNCHANGED <<offlineQueue, persisted, userContext, tables, drains, calls>>]_vars

\* C19 witness: the client has gone offline with an entry in the queue
\* while a drain pass is suspended.
C19_Witness ==
    /\ ~isOnline
    /\ offlineQueue # <<>>
    /\ persisted = offlineQueue
    /\ \E d \in DrainIds : drains[d] # NoDrain

\* The store holds the design file with the content of the latest save.
StoredLatest == \E row \in design_files : row.content = Latest

\* C17 (as claimed): the content of the save issued last wins: once the
\* store holds it, no replay of an earlier save from the queue replaces it
\* (no save is issued after the latest one).
C17_LatestContentWins == [][StoredLatest => StoredLatest']_vars

GetOps == {"getChatHistory", "getProjects", "getDesignFiles", "getProjectFiles"}

\* Caller c calls one of the get operations in this step.
GetCalled(c) ==
    \/ \E projectId \in Projects : getChatHistory(c, projectId)
    \/ getProjects(c)
    \/ \E projectId \in Projects : getDesignFiles(c, projectId)
    \/ \E projectId \in Projects : getProjectFiles(c, projectId)

\* C11: a get operation called without store client or user context
\* returns an empty collection at once, with no request to the store; one
\* whose select the store answers with an error, or whose request throws,
\* returns an empty collection; no get operation ever throws, queues
\* anything or changes the store.
C11_ReadsDegradeToEmpty ==
    [][\A c \in Callers :
          /\ (GetCalled(c) /\ ~CanDispatch)
                => (/\ returned'.op \in GetOps
                    /\ returned'.result = {} /\ ~returned'.threw
                    /\ calls' = calls)
          /\ (calls[c].op \in GetOps /\ calls'[c] = Idle)
                => (/\ returned'.op = calls[c].op
                    /\ ~returned'.threw
                    /\ Failed => returned'.result = {}
                    /\ UNCHANGED <<offlineQueue, persisted, tables>>)]_vars

\* C11 witness: getProjects is suspended on its select, the store holds a
\* project of the user, and the request is about to throw.
C11_Witness ==
    \E c \in Callers :
        /\ calls[c].op = "getProjects"
        /\ Rows(calls[c].req) # {}
        /\ Threw

\* The owner a store request is scoped to: user_id of the row of an insert
\* or upsert, user_id of the equality filter of a select, update or delete.
OwnerOf(req) ==
    IF "row" \in DOMAIN req THEN req.row.user_id
    ELSE IF "user_id" \in DOMAIN req.filter THEN req.filter.user_id
    ELSE Null

\* The owner the request of a suspended call is scoped to.
OwnerOfCall(call) == IF "req" \in DOMAIN call THEN OwnerOf(call.req) ELSE call.userId

ScopedTables ==
    chat_history \cup design_files \cup project_files \cup user_settings \cup projects
    \cup canvas_snapshots

\* C15: every request a gateway operation hands to the store, by a call
\* or by the replay of a drain pass, is scoped to the userId of the user
\* context set at that moment (the row of an insert or upsert carries it,
\* the filter of a select, update or delete has an equality on it), and so
\* no stored row is without owner.
C15_RequestsScopedToOwner ==
    [][/\ \A c \in Callers :
             (calls'[c] # calls[c] /\ calls'[c] # Idle)
                 => (userContext # NoContext /\ OwnerOfCall(calls'[c]) = userContext.userId)
       /\ \A d \in DrainIds :
             (drains'[d] # drains[d] /\ drains'[d] # NoDrain)
                 => (userContext # NoContext /\ OwnerOf(drains'[d].req) = userContext.userId)
       /\ \A row \in ScopedTables' : row.user_id \in {context.userId : context \in OwnerContexts}]_vars

\* C15 witness: the store holds a chat message of user u1 and
\* deleteChatHistory for its project is suspended under user u2, its
\* filter on u2.
C15_Witness ==
    \E c \in Callers :
        /\ calls[c].op = "deleteChatHistory"
        /\ userContext.userId = "u2"
        /\ calls[c].req.filter.user_id = "u2"
        /\ \E row \in chat_history :
              row.project_id = calls[c].req.filter.project_id /\ row.user_id = "u1"

----------------------------------------------------------------------------
(* Soft deletion of project files *)

\* saveProjectFile, deleteProjectFile and getProjectFiles of one user,
\* against a store that may fail.
FilesNext ==
    \/ \E m \in StoreModes : SetStoreMode(m)
    \/ \E context \in Contexts : setUserContext(context)
    \/ \E c \in Callers, file \in ProjectFile :
          OpsOutstanding < MaxGatewayOps /\ FreeCaller(c) /\ saveProjectFile(c, file)
    \/ \E c \in Callers : saveProjectFileResume(c)
    \/ \E c \in Callers, projectId \in Projects, filePath \in Paths :
          FreeCaller(c) /\ deleteProjectFile(c, projectId, filePath)
    \/ \E c \in Callers : deleteProjectFileResume(c)
    \/ \E c \in Callers, projectId \in Projects : FreeCaller(c) /\ getProjectFiles(c, projectId)
    \/ \E c \in Callers : getProjectFilesResume(c)
    \/ handleOnline
    \/ handleOffline
    \/ \E d \in DrainIds : processOfflineQueueResume(d)

FilesSpec == Init /\ [][FilesNext]_vars

\* C21: a deleteProjectFile that the store applies removes no row: the
\* caller's row for (project id, file path) stays, with is_deleted true and
\* a deleted_at timestamp, its content kept; and getProjectFiles never
\* returns a file whose row is marked deleted.
C21_ProjectFileSoftDeleted ==
    [][\A c \in Callers :
          /\ (calls[c].op = "deleteProjectFile" /\ calls'[c] = Idle /\ Applied)
                => (/\ Cardinality(project_files') = Cardinality(project_files)
                    /\ \A r \in project_files :
                          Matches(r, calls[c].req.filter)
                              => \E s \in project_files' :
                                    /\ FileKey(s) = FileKey(r)
                                    /\ s.content = r.content
                                    /\ s.is_deleted
                                    /\ s.deleted_at # Null)
          /\ (calls[c].op = "getProjectFiles" /\ calls'[c] = Idle)
                => \A file \in returned'.result :
                      ~\E r \in project_files :
                            /\ FileKey(r) = <<file.projectId, file.filePath>>
                            /\ r.is_deleted]_vars

\* C21 witness: the row of a file is marked deleted, with a timestamp, and
\* a getProjectFiles for its project is about to be answered without it.
C21_Witness ==
    \E c \in Callers, r \in project_files :
        /\ r.is_deleted /\ r.deleted_at # Null
        /\ calls[c].op = "getProjectFiles"
        /\ calls[c].req.filter.project_id = r.project_id
        /\ ~Failed
        /\ Rows(calls[c].req) = {}

----------------------------------------------------------------------------
(* Hard deletion of design files, soft deletion of projects *)

\* Design files and projects of one user, saved or created and then
\* deleted, against a store that may fail.
DeletionNext ==
    \/ \E m \in StoreModes : SetStoreMode(m)
    \/ \E context \in Contexts : setUserContext(context)
    \/ \E c \in Callers, file \in ReadDesignFile :
          OpsOutstanding < MaxGatewayOps /\ FreeCaller(c) /\ saveDesignFile(c, file)
    \/ \E c \in Callers : saveDesignFileResume(c)
    \/ \E c \in Callers, name \in ProjectNames :
          Cardinality(projects) < MaxProjects /\ FreeCaller(c) /\ createProject(c, name)
    \/ \E c \in Callers : createProjectResume(c)
    \/ \E c \in Callers, projectId \in Projects, filePath \in Paths :
          FreeCaller(c) /\ deleteDesignFile(c, projectId, filePath)
    \/ \E c \in Callers : deleteDesignFileResume(c)
    \/ \E c \in Callers, projectId \in Projects : FreeCaller(c) /\ deleteProject(c, projectId)
    \/ \E c \in Callers : deleteProjectResume(c)
    \/ handleOnline
    \/ handleOffline
    \/ \E d \in DrainIds : processOfflineQueueResume(d)

DeletionSpec == Init /\ [][DeletionNext]_vars

\* C22: a deleteDesignFile that the store applies leaves no row of the
\* caller for (project id, file path) and touches no other row; a
\* deleteProject that the store applies keeps every row of projects, and
\* changes nothing but the status of the caller's project, to deleted.
C22_DeletionAsymmetry ==
    [][\A c \in Callers :
          /\ (calls[c].op = "deleteDesignFile" /\ calls'[c] = Idle /\ Applied)
                => (/\ design_files' \subseteq design_files
                    /\ \A r \in design_files :
                          r \in design_files'
                              <=> ~(/\ r.project_id = calls[c].req.filter.project_id
                                    /\ r.file_path = calls[c].req.filter.file_path
                                    /\ r.user_id = calls[c].req.filter.user_id))
          /\ (calls[c].op = "deleteProject" /\ calls'[c] = Idle /\ Applied)
                => (/\ Cardinality(projects') = Cardinality(projects)
                    /\ \A r \in projects :
                          \E s \in projects' :
                              /\ s.id = r.id /\ s.user_id = r.user_id /\ s.name = r.name
                              /\ s.canvas_state = r.canvas_state
                              /\ s.status = IF /\ r.id = calls[c].req.filter.id
                                               /\ r.user_id = calls[c].req.filter.user_id
                                            THEN "deleted" ELSE r.status)]_vars

\* C22 witness: a project has been deleted and its row is kept with status
\* deleted, and a deleteDesignFile is about to be applied to a stored row.
C22_Witness ==
    \E c \in Callers :
        /\ \E r \in projects : r.status = "deleted"
        /\ returned.op = "deleteProject"
        /\ calls[c].op = "deleteDesignFile"
        /\ Applied
        /\ \E r \in design_files : Matches(r, calls[c].req.filter)

----------------------------------------------------------------------------
(* getProjects over a filled store *)

\* The store holds n projects, created earlier by this user and others:
\* project i belongs to another user when i is a multiple of foreign, is
\* deleted when i is a multiple of deleted, and was last updated at the
\* time (7 i) mod 11, so that update times repeat and do not follow the
\* order of creation.
StoredProject(i, foreign, deleted) ==
    [id |-> "p" \o ToString(i),
     user_id |-> IF foreign > 0 /\ i % foreign = 0 THEN "u2" ELSE "u1",
     name |-> "Site",
     status |-> IF deleted > 0 /\ i % deleted = 0 THEN "deleted" ELSE "active",
     canvas_state |-> Null,
     updated_at |-> (7 * i) % 11]

StoredProjects(n, foreign, deleted) == {StoredProject(i, foreign, deleted) : i \in 1..n}

ListingInit ==
    /\ supabase \in BOOLEAN
    /\ userContext = NoContext
    /\ isOnline \in BOOLEAN
    /\ offlineQueue = <<>>
    /\ persisted = <<>>
    /\ now = 0
    /\ storeMode \in StoreModes
    /\ chat_history = {}
    /\ design_files = {}
    /\ project_files = {}
    /\ user_settings = {}
    /\ users = {}
    /\ \E n \in 0..MaxStored, foreign \in {0, 3}, deleted \in {0, 5} :
          projects = StoredProjects(n, foreign, deleted)
    /\ canvas_snapshots = {}
    /\ session = NoUser
    /\ calls = [c \in Callers |-> Idle]
    /\ drains = [d \in DrainIds |-> NoDrain]
    /\ returned = NoReturn

ListingNext ==
    \/ \E m \in StoreModes : SetStoreMode(m)
    \/ \E context \in OwnerContexts : setUserContext(context)
    \/ \E c \in Callers : FreeCaller(c) /\ getProjects(c)
    \/ \E c \in Callers : getProjectsResume(c)
    \/ \E c \in Callers, projectId \in Projects : FreeCaller(c) /\ deleteProject(c, projectId)
    \/ \E c \in Callers : deleteProjectResume(c)
    \/ handleOnline
    \/ handleOffline

ListingSpec == ListingInit /\ [][ListingNext]_vars

\* The projects a listing for user userId may return.
Listable(userId) == {r \in projects : r.user_id = userId /\ r.status = "active"}

\* C23: whatever the store holds, getProjects returns at most 50 rows, all
\* of them stored rows with status active that belong to the identity the
\* call was made under, in descending order of updated_at; and when the
\* select succeeds they are the min(50, number of such rows) most recently
\* updated ones.
C23_GetProjectsBoundedActiveOwned ==
    [][\A c \in Callers :
          (calls[c].op = "getProjects" /\ calls'[c] = Idle)
              => LET result == returned'.result
                     rows == {e.row : e \in result}
                     listable == Listable(calls[c].req.filter.user_id)
                 IN /\ Cardinality(result) <= ProjectsLimit
                    /\ {e.index : e \in result} = 1..Cardinality(result)
                    /\ Cardinality(rows) = Cardinality(result)
                    /\ rows \subseteq listable
                    /\ \A a, b \in result :
                          a.index < b.index => a.row.updated_at >= b.row.updated_at
                    /\ ~Failed =>
                          /\ Cardinality(rows) =
                                IF Cardinality(listable) <= ProjectsLimit
                                THEN Cardinality(listable) ELSE ProjectsLimit
                          /\ \A r \in listable \ rows, k \in rows :
                                r.updated_at <= k.updated_at]_vars

\* C23 witness: the user has more than 50 active projects, besides deleted
\* ones, and getProjects has returned 50.
C23_Witness ==
    /\ returned.op = "getProjects"
    /\ Cardinality(returned.result) = ProjectsLimit
    /\ Cardinality(Listable("u1")) > ProjectsLimit
    /\ \E r \in projects : r.status = "deleted"

----------------------------------------------------------------------------
(* createProject *)

\* C24: createProject called without store client or user context throws
\* at once, with no request to the store; one whose insert the store
\* answers with an error, or whose request throws, throws; in both cases
\* the caller gets no id and the queue and its stored copy stay as they
\* are.  An insert that succeeds returns the id of the new row.
C24_CreateProjectThrowsAndNeverQueues ==
    [][\A c \in Callers :
          /\ ((\E name \in ProjectNames : createProject(c, name)) /\ ~CanDispatch)
                => (/\ returned'.op = "createProject"
                    /\ returned'.threw /\ returned'.result = {}
                    /\ calls' = calls
                    /\ UNCHANGED <<offlineQueue, persisted, tables>>)
          /\ (calls[c].op = "createProject" /\ calls'[c] = Idle)
                => (/\ returned'.op = "createProject"
                    /\ UNCHANGED <<offlineQueue, persisted>>
                    /\ IF Failed
                       THEN returned'.threw /\ returned'.result = {}
                       ELSE /\ ~returned'.threw
                            /\ \E row \in projects' \ projects :
                                  returned'.result = {row.id})]_vars

\* C24 witness: a createProject has thrown, and the insert of another is
\* about to fail while the queue holds a write.
C24_Witness ==
    \E c \in Callers :
        /\ returned.op = "createProject"
        /\ returned.threw
        /\ calls[c].op = "createProject"
        /\ Failed
        /\ Len(offlineQueue) > 0

----------------------------------------------------------------------------
(* The order of a drain pass *)

\* C25: a drain pass captures the whole queue in its order and attempts
\* the captured operations one after the other, from the first to the
\* last: the answer to one, success or failure, is followed by the request
\* of the next, and the pass ends after the last.  A replayed save that
\* the store applies leaves its row in the store, one that fails is
\* queued again.
C25_DrainAttemptsEveryOperationInOrder ==
    [][\A d \in DrainIds :
          /\ (drains[d] = NoDrain /\ drains'[d] # NoDrain)
                => (/\ drains'[d].queue = offlineQueue
                    /\ drains'[d].i = 1
                    /\ drains'[d].req = ChatRequest(offlineQueue[1].data))
          /\ (drains[d] # NoDrain /\ drains'[d] # drains[d])
                => LET queue == drains[d].queue
                       i == drains[d].i
                   IN /\ Applied => \E row \in chat_history' :
                                        /\ row.id = queue[i].data.id
                                        /\ row.content = queue[i].data.content
                      /\ Failed => InQueue(queue[i].data, offlineQueue')
                      /\ IF i < Len(queue)
                         THEN drains'[d] = [queue |-> queue, i |-> i + 1,
                                            req |-> ChatRequest(queue[i + 1].data)]
                         ELSE drains'[d] = NoDrain]_vars

\* C25 witness: a pass captured m1 and then m2; the replay of m1 failed
\* and m1 is queued again, and the replay of m2 is about to be applied:
\* m2 is stored while m1, enqueued before it, is still queued.
C25_Witness ==
    \E d \in DrainIds :
        /\ drains[d] # NoDrain
        /\ Len(drains[d].queue) = 2
        /\ drains[d].queue[1].data.id = "m1"
        /\ drains[d].queue[2].data.id = "m2"
        /\ drains[d].i = 2
        /\ InQueue(drains[d].queue[1].data, offlineQueue)
        /\ ~\E row \in chat_history : row.id = "m1"
        /\ ~Failed

----------------------------------------------------------------------------
(* Termination of a drain pass *)

\* The operations a suspended pass has yet to attempt, the one whose
\* answer it awaits included.
Remaining(d) == Len(drains[d].queue) - drains[d].i + 1

\* C26: the operations a pass captured are fixed when it starts; each
\* answer, success or failure, moves the pass on by exactly one operation,
\* so that every captured operation is dispatched once and a failed one,
\* queued again, is not dispatched again by this pass; and a pass that has
\* started ends, also when the store fails every write.
C26_DrainPassDispatchesOnceAndEnds ==
    /\ [][\A d \in DrainIds :
             /\ (drains'[d] # NoDrain /\ drains'[d] # drains[d])
                   => (/\ drains'[d].i \in 1..Len(drains'[d].queue)
                       /\ drains'[d].req =
                              ChatRequest(drains'[d].queue[drains'[d].i].data))
             /\ (drains[d] # NoDrain /\ drains'[d] # NoDrain /\ drains'[d] # drains[d])
                   => (/\ drains'[d].queue = drains[d].queue
                       /\ drains'[d].i = drains[d].i + 1)
             /\ (drains[d] # NoDrain /\ drains'[d] = NoDrain)
                   => drains[d].i = Len(drains[d].queue)]_vars
    /\ \A d \in DrainIds, n \in 1..MaxOps :
          (drains[d] # NoDrain /\ Remaining(d) = n)
              ~> (drains[d] = NoDrain \/ Remaining(d) < n)

\* C26 witness: the store rejects writes; the pass has replayed its first
\* operation, which failed and is queued again, and awaits the answer to
\* its second.
C26_Witness ==
    \E d \in DrainIds :
        /\ drains[d] # NoDrain
        /\ drains[d].i = 2
        /\ storeMode = "reject"
        /\ InQueue(drains[d].queue[1].data, offlineQueue)

----------------------------------------------------------------------------
(* The write path of a replayed operation *)

\* C27 (as claimed): a replayed operation never goes through
\* queueOperation: when its write fails, the pass itself puts the captured
\* operation back, as it was captured, and nothing is written to
\* localStorage before the pass ends; when its write succeeds the queue is
\* left as it is.
C27_ReplayNeverEnqueues ==
    [][\A d \in DrainIds :
          (drains[d] # NoDrain /\ drains'[d] # drains[d])
              => (/\ offlineQueue' = IF Failed
                                     THEN Append(offlineQueue, drains[d].queue[drains[d].i])
                                     ELSE offlineQueue
                  /\ drains'[d] # NoDrain => persisted' = persisted)]_vars

----------------------------------------------------------------------------
(* Conservation of operations by a drain pass *)

\* The positions of queue at which the payload is message.
Positions(message, queue) ==
    {k \in 1..Len(queue) : queue[k].type = "saveChatMessage" /\ queue[k].data = message}

\* C28 (as claimed): when a drain pass completes, every operation of its
\* snapshot is applied to the store or is in the live queue, no operation
\* of the snapshot is in the live queue twice, and the ones in the live
\* queue stand in the order of the snapshot.  The application hands every
\* message to saveChatMessage once, so a payload names one operation.
C28_DrainConservesOperations ==
    [][\A d \in DrainIds :
          (drains[d] # NoDrain /\ drains'[d] = NoDrain)
              => LET queue == drains[d].queue
                 IN /\ \A k \in 1..Len(queue) :
                          /\ Cardinality(Positions(queue[k].data, offlineQueue')) <= 1
                          /\ \/ \E row \in chat_history' :
                                   /\ RowOf(queue[k].data, row)
                                   /\ row.content = queue[k].data.content
                             \/ Positions(queue[k].data, offlineQueue') # {}
                    /\ \A j, k \in 1..Len(queue) :
                          j < k => \A a \in Positions(queue[j].data, offlineQueue'),
                                      b \in Positions(queue[k].data, offlineQueue') : a < b]_vars

----------------------------------------------------------------------------
(* Order of the queue *)

\* The timestamps of queue do not decrease from head to tail.
InEnqueueOrder(queue) ==
    \A j, k \in 1..Len(queue) : j < k => queue[j].timestamp <= queue[k].timestamp

\* C29: a step that makes the queue longer adds one entry at its tail,
\* stamped with the time of the step, and leaves the entries before it as
\* they were; and in every state the timestamps of the queue do not
\* decrease from head to tail.
C29_EnqueueIsFifoAppend ==
    [][/\ Len(offlineQueue') > Len(offlineQueue)
             => (/\ Len(offlineQueue') = Len(offlineQueue) + 1
                 /\ SubSeq(offlineQueue', 1, Len(offlineQueue)) = offlineQueue
                 /\ offlineQueue'[Len(offlineQueue')].timestamp = now)
       /\ InEnqueueOrder(offlineQueue')]_vars

\* C29 witness: the queue holds two entries, the second enqueued at a
\* later time than the first.
C29_Witness ==
    /\ Len(offlineQueue) = 2
    /\ offlineQueue[1].timestamp < offlineQueue[2].timestamp

----------------------------------------------------------------------------
(* Chat messages without id *)

\* Distinct messages of one project that the caller gives no id.
UnidentifiedMessage == [id : {NoId}, projectId : Projects, role : {"user"}, content : Contents]

UnidentifiedNext ==
    \/ Tick
    \/ \E m \in {"ok", "reject"} : SetStoreMode(m)
    \/ \E context \in Contexts : setUserContext(context)
    \/ \E c \in Callers, message \in UnidentifiedMessage :
          OpsOutstanding < MaxOps /\ FreeCaller(c) /\ saveChatMessage(c, message)
    \/ \E c \in Callers : saveChatMessageResume(c)
    \/ handleOnline
    \/ handleOffline
    \/ \E d \in DrainIds : processOfflineQueueResume(d)

UnidentifiedSpec == QueueInit /\ [][UnidentifiedNext]_vars

\* C30 (as claimed): a message stored under a generated id stays stored
\* when another message without id is saved in its project: no save
\* replaces the row of a message of different content.
C30_GeneratedIdsNeverMerge ==
    [][\A row \in chat_history :
          \E kept \in chat_history' :
              kept.project_id = row.project_id /\ kept.content = row.content]_vars

----------------------------------------------------------------------------
(* Canvas snapshots *)

SnapshotNames == {Null, "v1"}

\* Snapshots taken of the canvas of a project, between the other
\* operations on projects and the deletes, against a store that may fail.
SnapshotNext ==
    \/ \E m \in StoreModes : SetStoreMode(m)
    \/ \E context \in Contexts : setUserContext(context)
    \/ \E c \in Callers, name \in ProjectNames :
          Cardinality(projects) < MaxProjects /\ FreeCaller(c) /\ createProject(c, name)
    \/ \E c \in Callers : createProjectResume(c)
    \/ \E c \in Callers, projectId \in Projects, canvasState \in CanvasStates,
          name \in SnapshotNames :
          /\ Cardinality(canvas_snapshots) < MaxSnapshots
          /\ FreeCaller(c)
          /\ createCanvasSnapshot(c, projectId, canvasState, name)
    \/ \E c \in Callers : createCanvasSnapshotResume(c)
    \/ \E c \in Callers, projectId \in Projects, canvasState \in CanvasStates :
          FreeCaller(c) /\ saveCanvasState(c, projectId, canvasState)
    \/ \E c \in Callers : saveCanvasStateResume(c)
    \/ \E c \in Callers, projectId \in Projects : FreeCaller(c) /\ getCanvasState(c, projectId)
    \/ \E c \in Callers : getCanvasStateResume(c)
    \/ \E c \in Callers, projectId \in Projects, updates \in ProjectUpdates :
          FreeCaller(c) /\ updateProject(c, projectId, updates)
    \/ \E c \in Callers : updateProjectResume(c)
    \/ \E c \in Callers, projectId \in Projects : FreeCaller(c) /\ deleteProject(c, projectId)
    \/ \E c \in Callers : deleteProjectResume(c)
    \/ \E c \in Callers, projectId \in Projects :
          FreeCaller(c) /\ deleteChatHistory(c, projectId)
    \/ \E c \in Callers : deleteChatHistoryResume(c)
    \/ \E c \in Callers, projectId \in Projects, filePath \in Paths :
          FreeCaller(c) /\ deleteDesignFile(c, projectId, filePath)
    \/ \E c \in Callers : deleteDesignFileResume(c)
    \/ \E c \in Callers, projectId \in Projects, filePath \in Paths :
          FreeCaller(c) /\ deleteProjectFile(c, projectId, filePath)
    \/ \E c \in Callers : deleteProjectFileResume(c)
    \/ handleOnline
    \/ handleOffline

SnapshotSpec == Init /\ [][SnapshotNext]_vars

----------------------------------------------------------------------------
(* The owner of a replayed write *)

\* The application saves message m1 while user u1 is the current identity
\* and message m2 while user u2 is.
Issuer(id) == IF id = "m1" THEN "u1" ELSE "u2"

ReplayOwnerNext ==
    \/ \E m \in {"ok", "reject"} : SetStoreMode(m)
    \/ \E context \in OwnerContexts : setUserContext(context)
    \/ \E c \in Callers, message \in QueueMessage :
          /\ userContext.userId = Issuer(message.id)
          /\ OpsOutstanding < MaxOps /\ FreeCaller(c)
          /\ saveChatMessage(c, message)
    \/ \E c \in Callers : saveChatMessageResume(c)
    \/ handleOnline
    \/ handleOffline
    \/ \E d \in DrainIds : processOfflineQueueResume(d)

ReplayOwnerSpec == QueueInit /\ [][ReplayOwnerNext]_vars

\* C32 (as claimed): every stored row of a message, written at once or by
\* the replay of a queued save, is owned by the identity that was current
\* when the application issued the save.
C32_ReplayedWriteKeepsIssuer ==
    \A row \in chat_history : row.user_id = Issuer(row.id)

----------------------------------------------------------------------------
(* Overlapping drain passes *)

\* The places where the save of message waits to be dispatched or
\* answered: positions of the live queue, positions of the snapshot of a
\* suspended pass from the one it awaits on, and suspended calls.
Waiting(message) ==
    {<<"queue", 0, k>> : k \in Positions(message, offlineQueue)}
    \cup UNION {IF drains[d] = NoDrain THEN {}
                ELSE {<<"pass", d, k>> :
                         k \in {j \in drains[d].i..Len(drains[d].queue) :
                                   drains[d].queue[j].data = message}} : d \in DrainIds}
    \cup {<<"call", c, 0>> :
             c \in {b \in Callers : calls[b].op = "saveChatMessage" /\ calls[b].data = message}}

\* C33: with drain passes overlapping, a save that the application issued
\* once waits in at most one place at a time (the live queue, one pass or
\* one call), so no queued entry is dispatched by two passes; a save that
\* waits or is stored is never dropped; and when the last pass has
\* completed, every operation of its snapshot is stored or in the queue
\* exactly once.
C33_OverlappingPassesAreSafe ==
    [][\A message \in RetryMessage :
          /\ Cardinality(Waiting(message)') <= 1
          /\ (Waiting(message) # {} \/ Stored(message))
                => (Waiting(message)' # {} \/ Stored(message)')
          /\ ((\E d \in DrainIds : drains[d] # NoDrain /\ InQueue(message, drains[d].queue))
                 /\ (\A d \in DrainIds : drains'[d] = NoDrain)
                 /\ (\A c \in Callers : calls'[c] = Idle))
                => (\/ Stored(message)'
                    \/ Cardinality(Positions(message, offlineQueue')) = 1)]_vars

\* C33 witness: two passes are suspended at once, and the second holds an
\* operation that the first captured, replayed without success and queued
\* again.
C33_Witness ==
    \E d, e \in DrainIds :
        /\ d # e
        /\ drains[d] # NoDrain /\ drains[e] # NoDrain
        /\ \E k \in 1..(drains[d].i - 1) :
              InQueue(drains[d].queue[k].data, drains[e].queue)

----------------------------------------------------------------------------
(* Initialisation of the session by the hook *)

\* The hook over sign-in, sign-out and sign-in of another user, each
\* sign-in starting an initializeUser that may still be awaiting ensureUser
\* when the next one starts; the store may fail.
InitializeInit ==
    /\ Constructed
    /\ supabase
    /\ calls = [c \in Sessions |-> Idle]

InitializeNext ==
    \/ \E m \in StoreModes : SetStoreMode(m)
    \/ \E c \in Sessions, user \in ExternalIds :
          Cardinality(users) < MaxUsers /\ FreeSession(c) /\ SignIn(c, user)
    \/ SignOut
    \/ \E c \in Sessions : ensureUserSelected(c)
    \/ \E c \in Sessions : ensureUserUpdated(c)
    \/ \E c \in Sessions : ensureUserInserted(c)
    \/ handleOnline
    \/ handleOffline

InitializeSpec == InitializeInit /\ [][InitializeNext]_vars

\* No initializeUser is awaiting ensureUser.
Initialized == \A c \in Sessions : calls[c] = Idle

\* C34 (as claimed): when every initialisation in flight has completed,
\* the last of them with success, and a user is signed in, the user context
\* carries the external id of that user; and an ensureUser that throws
\* leaves the user context as it was.
C34_InitialisationIsRaceFree ==
    /\ []((Initialized /\ session # NoUser /\ returned.op = "ensureUser" /\ ~returned.threw)
            => userContext.clerkUserId = session)
    /\ [][\A c \in Sessions :
             (calls[c].op = "ensureUser" /\ calls'[c] = Idle /\ returned'.threw)
                 => userContext' = userContext]_vars

----------------------------------------------------------------------------
(* Replay of a save over a soft delete *)

\* C35 (as claimed): the replay of a queued saveProjectFile by a drain pass
\* leaves a row that is marked deleted marked deleted.
C35_ReplayKeepsSoftDelete ==
    [][\A d \in DrainIds :
          (drains[d] # NoDrain /\ drains'[d] # drains[d])
              => \A r \in project_files :
                    r.is_deleted
                        => \E kept \in project_files' :
                              FileKey(kept) = FileKey(r) /\ kept.is_deleted]_vars

----------------------------------------------------------------------------
(* A drain pass that finds its guard closed *)

\* C36: a drain pass started while the client is offline, or while the
\* store client or the user context is missing, does nothing: an 'online'
\* event that finds the client or the context missing leaves the queue,
\* localStorage, the store, the passes under way and the calls in flight as
\* they are, and a step that starts a pass or takes an entry off the queue
\* ends online and began with the client and the context present.
C36_GuardedDrainIsNoOp ==
    [][/\ (ComesOnline /\ ~(supabase /\ userContext # NoContext))
             => UNCHANGED <<offlineQueue, persisted, tables, drains, calls, returned>>
       /\ (\/ \E d \in DrainIds : drains[d] = NoDrain /\ drains'[d] # NoDrain
           \/ Len(offlineQueue') < Len(offlineQueue))
             => (isOnline' /\ supabase /\ userContext # NoContext)]_vars

\* C36 witness: the client is online without a user context after the
\* clock has advanced, two entries queued before the advance are still in
\* the queue and in localStorage with their timestamps, no pass holds
\* anything and nothing was stored.
C36_Witness ==
    /\ isOnline /\ userContext = NoContext
    /\ now = MaxClock
    /\ Len(offlineQueue) = 2
    /\ \A k \in 1..2 : offlineQueue[k].timestamp = 0
    /\ persisted = SetItem(offlineQueue)
    /\ \A d \in DrainIds : drains[d] = NoDrain
    /\ chat_history = {}

====
